---- MODULE Spec2Model ----
(***************************************************************************)
(* A model of deciders.rs: the Decider contract, the combinators of        *)
(* src/src/deciders.rs, the InMemoryRunner of src/src/utilities.rs and the *)
(* leaf deciders (Cat, Bulb, NeutralDecider) of src/tests/integrations.rs, *)
(* and the UpdateServer decider of src/examples/update_server.rs.          *)
(*                                                                         *)
(* A decider type is a value (a record with a "kind" field and, for a      *)
(* combinator, its type parameters); the trait's static dispatch is the    *)
(* operators decide / evolve / initial_state / is_terminal, which select   *)
(* the implementation by kind.  Converter type parameters are functions.   *)
(* Every call returns Ok(value) or Panic, so that a panic!() in a leaf     *)
(* propagates through the combinators and the runner as it unwinds.        *)
(***************************************************************************)
EXTENDS Integers, Sequences, FiniteSets, TLC

VARIABLES
    decider,          \* the type parameter D of the runner / of the call under test
    state,            \* InMemoryRunner.state (runner) or the state argument (calls)
    panicked,         \* a panic has unwound out of the last call
    call,             \* the last call made: its name and arguments
    result,           \* what the last call returned
    commands,         \* every command submitted to the runner, in call order
    events,           \* every event returned by the runner, in call order
    overflow_checks,  \* build profile: does integer overflow panic (debug) or wrap (release)
    resumed           \* a second runner, built by with_state() from the first one's state

vars == <<decider, state, panicked, call, result, commands, events, overflow_checks,
          resumed>>

----------------------------------------------------------------------------
(* Bounds of the model *)

\* largest max_uses given to Command::Fit
MaxUses == 2
\* number of command() calls made on one runner
MaxCalls == 4
\* length of an event history given to run_decider
MaxEvents == 3
\* number of command() calls made on a runner of a process combined with a decider
MaxProcessCalls == 5

\* max_uses of the bulb fitted in compose_process
TestMaxUses == 5

\* u64::MAX, the value remaining_uses wraps to in a build without overflow
\* checks.  The model checker's integers are 32 bits wide, so its largest
\* integer stands for 2^64 - 1.
U64_MAX == 2147483647

----------------------------------------------------------------------------
(* Values *)

Ok(v) == [ok |-> TRUE, val |-> v]
Panic == [ok |-> FALSE]

Some(v) == [some |-> TRUE, val |-> v]
None == [some |-> FALSE]

\* Either<L, R>: the variant, then its value
Left(v) == <<"Left", v>>
Right(v) == <<"Right", v>>

\* the names used for ManyDecider instances
Names == {"Floof", "Shadow"}

Unit == "()"

----------------------------------------------------------------------------
(* NeutralDecider *)

NeutralDecider_decide(command, st) == Ok(<<>>)

NeutralDecider_evolve(st, event) == Ok(Unit)

NeutralDecider_initial_state == Unit

NeutralDecider_is_terminal(st) == TRUE

----------------------------------------------------------------------------
(* bulb *)

Fit(n) == [tag |-> "Fit", max_uses |-> n]
SwitchOn == [tag |-> "SwitchOn"]
SwitchOff == [tag |-> "SwitchOff"]

Fitted(n) == [tag |-> "Fitted", max_uses |-> n]
SwitchedOn == [tag |-> "SwitchedOn"]
SwitchedOff == [tag |-> "SwitchedOff"]
Blew == [tag |-> "Blew"]

NotFitted == [tag |-> "NotFitted"]
Working(st, n) == [tag |-> "Working", status |-> st, remaining_uses |-> n]
Blown == [tag |-> "Blown"]

\* a - b on u64: panics with overflow checks, wraps without
u64_sub(a, b) ==
    IF a >= b THEN Ok(a - b)
    ELSE IF overflow_checks THEN Panic
    ELSE Ok(U64_MAX - (b - a) + 1)

\* mutant: a bulb that is on is switched on again
Bulb_decide_twice(command, st) ==
    IF command.tag = "Fit" /\ st.tag = "NotFitted"
    THEN Ok(<<Fitted(command.max_uses)>>)
    ELSE IF command.tag = "Fit"
    THEN Panic
    ELSE IF command.tag = "SwitchOn" /\ st.tag = "Working" /\ st.remaining_uses > 0
    THEN Ok(<<SwitchedOn>>)
    ELSE IF command.tag = "SwitchOn" /\ st.tag = "Working" /\ st.status = "Off"
            /\ st.remaining_uses = 0
    THEN Ok(<<Blew>>)
    ELSE IF command.tag = "SwitchOff" /\ st.tag = "Working" /\ st.status = "On"
    THEN Ok(<<SwitchedOff>>)
    ELSE Ok(<<>>)

\* mutant: a used-up bulb blows on SwitchOn whatever its status
Bulb_decide_blow_on(command, st) ==
    IF command.tag = "Fit" /\ st.tag = "NotFitted"
    THEN Ok(<<Fitted(command.max_uses)>>)
    ELSE IF command.tag = "Fit"
    THEN Panic
    ELSE IF command.tag = "SwitchOn" /\ st.tag = "Working" /\ st.status = "Off"
            /\ st.remaining_uses > 0
    THEN Ok(<<SwitchedOn>>)
    ELSE IF command.tag = "SwitchOn" /\ st.tag = "Working" /\ st.remaining_uses = 0
    THEN Ok(<<Blew>>)
    ELSE IF command.tag = "SwitchOff" /\ st.tag = "Working" /\ st.status = "On"
    THEN Ok(<<SwitchedOff>>)
    ELSE Ok(<<>>)

\* mutant: fitting a bulb that is fitted already is ignored
Bulb_decide_lenient(command, st) ==
    IF command.tag = "Fit" /\ st.tag = "NotFitted"
    THEN Ok(<<Fitted(command.max_uses)>>)
    ELSE IF command.tag = "Fit"
    THEN Ok(<<>>)
    ELSE IF command.tag = "SwitchOn" /\ st.tag = "Working" /\ st.status = "Off"
            /\ st.remaining_uses > 0
    THEN Ok(<<SwitchedOn>>)
    ELSE IF command.tag = "SwitchOn" /\ st.tag = "Working" /\ st.status = "Off"
            /\ st.remaining_uses = 0
    THEN Ok(<<Blew>>)
    ELSE IF command.tag = "SwitchOff" /\ st.tag = "Working" /\ st.status = "On"
    THEN Ok(<<SwitchedOff>>)
    ELSE Ok(<<>>)

\* mutant: a used-up bulb ignores SwitchOn
Bulb_decide_everlasting(command, st) ==
    IF command.tag = "Fit" /\ st.tag = "NotFitted"
    THEN Ok(<<Fitted(command.max_uses)>>)
    ELSE IF command.tag = "Fit"
    THEN Panic
    ELSE IF command.tag = "SwitchOn" /\ st.tag = "Working" /\ st.status = "Off"
            /\ st.remaining_uses > 0
    THEN Ok(<<SwitchedOn>>)
    ELSE IF command.tag = "SwitchOff" /\ st.tag = "Working" /\ st.status = "On"
    THEN Ok(<<SwitchedOff>>)
    ELSE Ok(<<>>)

Bulb_decide(command, st) ==
    IF command.tag = "Fit" /\ st.tag = "NotFitted"
    THEN Ok(<<Fitted(command.max_uses)>>)
    ELSE IF command.tag = "Fit"
    THEN Panic
    ELSE IF command.tag = "SwitchOn" /\ st.tag = "Working" /\ st.status = "Off"
            /\ st.remaining_uses > 0
    THEN Ok(<<SwitchedOn>>)
    ELSE IF command.tag = "SwitchOn" /\ st.tag = "Working" /\ st.status = "Off"
            /\ st.remaining_uses = 0
    THEN Ok(<<Blew>>)
    ELSE IF command.tag = "SwitchOff" /\ st.tag = "Working" /\ st.status = "On"
    THEN Ok(<<SwitchedOff>>)
    ELSE Ok(<<>>)

\* mutant: a blown bulb is replaced by the one fitted
Bulb_evolve_refit(st, event) ==
    IF st.tag \in {"NotFitted", "Blown"} /\ event.tag = "Fitted"
    THEN Ok(Working("Off", event.max_uses))
    ELSE IF st.tag = "Working" /\ event.tag = "SwitchedOn"
    THEN LET r == u64_sub(st.remaining_uses, 1)
         IN  IF r.ok THEN Ok(Working("On", r.val)) ELSE Panic
    ELSE IF st.tag = "Working" /\ event.tag = "SwitchedOff"
    THEN Ok(Working("Off", st.remaining_uses))
    ELSE IF st.tag = "Working" /\ event.tag = "Blew"
    THEN Ok(Blown)
    ELSE Ok(st)

\* mutant: switching on does not use the bulb up
Bulb_evolve_unused(st, event) ==
    IF st.tag = "NotFitted" /\ event.tag = "Fitted"
    THEN Ok(Working("Off", event.max_uses))
    ELSE IF st.tag = "Working" /\ event.tag = "SwitchedOn"
    THEN Ok(Working("On", st.remaining_uses))
    ELSE IF st.tag = "Working" /\ event.tag = "SwitchedOff"
    THEN Ok(Working("Off", st.remaining_uses))
    ELSE IF st.tag = "Working" /\ event.tag = "Blew"
    THEN Ok(Blown)
    ELSE Ok(st)

Bulb_evolve(st, event) ==
    IF st.tag = "NotFitted" /\ event.tag = "Fitted"
    THEN Ok(Working("Off", event.max_uses))
    ELSE IF st.tag = "Working" /\ event.tag = "SwitchedOn"
    THEN LET r == u64_sub(st.remaining_uses, 1)
         IN  IF r.ok THEN Ok(Working("On", r.val)) ELSE Panic
    ELSE IF st.tag = "Working" /\ event.tag = "SwitchedOff"
    THEN Ok(Working("Off", st.remaining_uses))
    ELSE IF st.tag = "Working" /\ event.tag = "Blew"
    THEN Ok(Blown)
    ELSE Ok(st)

Bulb_initial_state == NotFitted

Bulb_is_terminal(st) == st.tag = "Blown"

----------------------------------------------------------------------------
(* cat *)

\* mutant: a sleeping cat goes to sleep again
Cat_decide_restless(command, st) ==
    IF command = "WakeUp" /\ st = "Asleep" THEN Ok(<<"WokeUp">>)
    ELSE IF command = "GetToSleep" THEN Ok(<<"GotToSleep">>)
    ELSE Ok(<<>>)

Cat_decide(command, st) ==
    IF command = "WakeUp" /\ st = "Asleep" THEN Ok(<<"WokeUp">>)
    ELSE IF command = "GetToSleep" /\ st = "Awake" THEN Ok(<<"GotToSleep">>)
    ELSE Ok(<<>>)

Cat_evolve(st, event) ==
    IF st = "Awake" /\ event = "GotToSleep" THEN Ok("Asleep")
    ELSE IF st = "Asleep" /\ event = "WokeUp" THEN Ok("Awake")
    ELSE Ok(st)

Cat_initial_state == "Awake"

Cat_is_terminal(st) == FALSE

----------------------------------------------------------------------------
(* examples/update_server.rs.  A String or &str is the sequence of its      *)
(* characters, so that splitting, trimming and parsing it are computed      *)

VERSIONS ==
    << <<"1", ".", "0", ".", "0">>, <<"1", ".", "0", ".", "1">>,
       <<"1", ".", "1", ".", "0">>, <<"1", ".", "1", ".", "1">>,
       <<"1", ".", "2", ".", "0">>, <<"2", ".", "0", ".", "0">> >>

UPDATE_DATA ==
    << "Download data for v1.0.0", "Download data for v1.0.1",
       "Download data for v1.1.0", "Download data for v1.1.1",
       "Download data for v1.2.0", "Download data for v2.0.0" >>

\* str::split(sep): the pieces between the separators, one more than there
\* are separators
RECURSIVE str_split(_, _)
str_split(s, sep) ==
    IF \E i \in DOMAIN s : s[i] = sep
    THEN LET i == CHOOSE k \in DOMAIN s : s[k] = sep /\ \A j \in 1..(k - 1) : s[j] # sep
         IN  <<SubSeq(s, 1, i - 1)>> \o str_split(SubSeq(s, i + 1, Len(s)), sep)
    ELSE <<s>>

\* str::trim, of strings whose only white space is the space
RECURSIVE str_trim(_)
str_trim(s) ==
    IF s # <<>> /\ Head(s) = " " THEN str_trim(Tail(s))
    ELSE IF s # <<>> /\ s[Len(s)] = " " THEN str_trim(SubSeq(s, 1, Len(s) - 1))
    ELSE s

\* the digits read so far are worth acc; None on a character that is no digit
\* and on a value above U64_MAX
RECURSIVE parse_digits(_, _)
parse_digits(s, acc) ==
    LET digits == <<"0", "1", "2", "3", "4", "5", "6", "7", "8", "9">>
        digit == (CHOOSE i \in DOMAIN digits : digits[i] = Head(s)) - 1
    IN  IF s = <<>> THEN Some(acc)
        ELSE IF \A i \in DOMAIN digits : digits[i] # Head(s) THEN None
        ELSE IF acc > (U64_MAX - digit) \div 10 THEN None
        ELSE parse_digits(Tail(s), acc * 10 + digit)

\* str::parse::<u64>: Some(n) for Ok(n), None for Err; a leading + is accepted,
\* the empty string and a lone sign are not
str_parse_u64(s) ==
    LET digits == IF s # <<>> /\ Head(s) = "+" THEN Tail(s) ELSE s
    IN  IF digits = <<>> THEN None ELSE parse_digits(digits, 0)

\* the version is split at the dots and the pieces are trimmed; there must
\* be three of them (assert_eq!) and each must parse (expect)
split_version_string(version) ==
    IF Len(str_split(version, ".")) # 3 THEN Panic
    ELSE IF \E i \in 1..3 : ~str_parse_u64(str_trim(str_split(version, ".")[i])).some
    THEN Panic
    ELSE Ok([i \in 1..3 |-> str_parse_u64(str_trim(str_split(version, ".")[i])).val])

\* compare_versions once both versions are split: c and t are what
\* split_version_string returned for current and to_check
compare_versions_split(c, t) ==
    IF ~c.ok \/ ~t.ok THEN Panic
    ELSE IF t.val[1] < c.val[1] THEN Ok(FALSE)
    ELSE IF t.val[1] > c.val[1] THEN Ok(TRUE)
    ELSE IF t.val[2] < c.val[2] THEN Ok(FALSE)
    ELSE IF t.val[2] > c.val[2] THEN Ok(TRUE)
    ELSE Ok(t.val[3] > c.val[3])

compare_versions(current, to_check) ==
    compare_versions_split(split_version_string(current), split_version_string(to_check))

\* the while loop of get_available_updates
RECURSIVE get_available_updates_loop(_, _)
get_available_updates_loop(current_version, newer_versions) ==
    IF newer_versions = <<>> THEN Ok(newer_versions)
    ELSE LET newer == compare_versions(current_version, newer_versions[1])
         IN  IF ~newer.ok THEN Panic
             ELSE IF ~newer.val
             THEN get_available_updates_loop(current_version, Tail(newer_versions))
             ELSE Ok(newer_versions)

get_available_updates(current_version) ==
    get_available_updates_loop(current_version, VERSIONS)

\* a Command, an Event or a State is a record of its variant (tag) and fields
NewConnection == [tag |-> "NewConnection"]
State_UpdateAvailable(vs) == [tag |-> "UpdateAvailable", new_versions |-> vs]
UnknownVersion(v) == [tag |-> "UnknownVersion", version |-> v]
NoNewUpdate == [tag |-> "NoNewUpdate"]
DownloadReady(d) == [tag |-> "DownloadReady", update_data |-> d]
DownloadUnavailable == [tag |-> "DownloadUnavailable"]

\* the arm (State::NewConnection, Command::QueryForUpdate { .. })
UpdateServer_decide_query(current_version) ==
    IF \A i \in DOMAIN VERSIONS : VERSIONS[i] # current_version
    THEN Ok(<<[tag |-> "UnknownVersionQueried", version |-> current_version]>>)
    ELSE LET newer_versions == get_available_updates(current_version)
         IN  IF ~newer_versions.ok THEN Panic
             ELSE IF newer_versions.val = <<>> THEN Ok(<<[tag |-> "AlreadyUpToDate"]>>)
             ELSE Ok(<<[tag |-> "UpdateAvailable", new_versions |-> newer_versions.val]>>)

\* the arm (State::UpdateAvailable { .. }, Command::DownloadUpdate { .. })
UpdateServer_decide_download(new_versions, desired_version) ==
    IF \A i \in DOMAIN new_versions : new_versions[i] # desired_version
    THEN Ok(<<[tag |-> "InvalidVersion"]>>)
    ELSE IF \E i \in DOMAIN VERSIONS : VERSIONS[i] = desired_version
    THEN LET i == CHOOSE k \in DOMAIN VERSIONS :
                     VERSIONS[k] = desired_version
                     /\ \A j \in 1..(k - 1) : VERSIONS[j] # desired_version
         IN  Ok(<<[tag |-> "GotUpdateData", update_data |-> UPDATE_DATA[i]]>>)
    ELSE Ok(<<[tag |-> "InvalidVersion"]>>)

\* mutant: a client whose version was unknown may query again
UpdateServer_decide_requery(command, st) ==
    IF st.tag \in {"NewConnection", "UnknownVersion"} /\ command.tag = "QueryForUpdate"
    THEN UpdateServer_decide_query(command.current_version)
    ELSE IF st.tag = "UpdateAvailable" /\ command.tag = "DownloadUpdate"
    THEN UpdateServer_decide_download(st.new_versions, command.desired_version)
    ELSE Ok(<<>>)

UpdateServer_decide(command, st) ==
    IF st.tag = "NewConnection" /\ command.tag = "QueryForUpdate"
    THEN UpdateServer_decide_query(command.current_version)
    ELSE IF st.tag = "UpdateAvailable" /\ command.tag = "DownloadUpdate"
    THEN UpdateServer_decide_download(st.new_versions, command.desired_version)
    ELSE Ok(<<>>)

UpdateServer_evolve(st, event) ==
    IF st.tag = "NewConnection" /\ event.tag = "UpdateAvailable"
    THEN Ok(State_UpdateAvailable(event.new_versions))
    ELSE IF st.tag = "NewConnection" /\ event.tag = "UnknownVersionQueried"
    THEN Ok(UnknownVersion(event.version))
    ELSE IF st.tag = "NewConnection" /\ event.tag = "AlreadyUpToDate"
    THEN Ok(NoNewUpdate)
    ELSE IF st.tag = "UpdateAvailable" /\ event.tag = "GotUpdateData"
    THEN Ok(DownloadReady(event.update_data))
    ELSE IF st.tag = "UpdateAvailable" /\ event.tag = "InvalidVersion"
    THEN Ok(DownloadUnavailable)
    ELSE Ok(st)

UpdateServer_initial_state == NewConnection

UpdateServer_is_terminal(st) ==
    st.tag \in {"NoNewUpdate", "DownloadReady", "DownloadUnavailable"}

----------------------------------------------------------------------------
(* The Decider trait: static dispatch on the decider type *)

RECURSIVE decide(_, _, _)
RECURSIVE evolve(_, _, _)
RECURSIVE initial_state(_)
RECURSIVE is_terminal(_, _)

----------------------------------------------------------------------------
(* ComposedDeciders<D1, .., D2, ..> *)

\* mutant: a left command is decided against D1's initial state, not state.0
ComposedDeciders_decide_stale(D, command, st) ==
    IF command[1] = "Left"
    THEN LET r == decide(D.D1, command[2], initial_state(D.D1))
         IN  IF r.ok THEN Ok([i \in DOMAIN r.val |-> Left(r.val[i])]) ELSE Panic
    ELSE LET r == decide(D.D2, command[2], st[2])
         IN  IF r.ok THEN Ok([i \in DOMAIN r.val |-> Right(r.val[i])]) ELSE Panic

ComposedDeciders_decide(D, command, st) ==
    IF command[1] = "Left"
    THEN LET r == decide(D.D1, command[2], st[1])
         IN  IF r.ok THEN Ok([i \in DOMAIN r.val |-> Left(r.val[i])]) ELSE Panic
    ELSE LET r == decide(D.D2, command[2], st[2])
         IN  IF r.ok THEN Ok([i \in DOMAIN r.val |-> Right(r.val[i])]) ELSE Panic

\* mutant: a left event rebuilds state.1 from D2's initial state
ComposedDeciders_evolve_reset(D, st, event) ==
    IF event[1] = "Left"
    THEN LET r == evolve(D.D1, st[1], event[2])
         IN  IF r.ok THEN Ok(<<r.val, initial_state(D.D2)>>) ELSE Panic
    ELSE LET r == evolve(D.D2, st[2], event[2])
         IN  IF r.ok THEN Ok(<<st[1], r.val>>) ELSE Panic

ComposedDeciders_evolve(D, st, event) ==
    IF event[1] = "Left"
    THEN LET r == evolve(D.D1, st[1], event[2])
         IN  IF r.ok THEN Ok(<<r.val, st[2]>>) ELSE Panic
    ELSE LET r == evolve(D.D2, st[2], event[2])
         IN  IF r.ok THEN Ok(<<st[1], r.val>>) ELSE Panic

ComposedDeciders_initial_state(D) == <<initial_state(D.D1), initial_state(D.D2)>>

ComposedDeciders_is_terminal(D, st) ==
    is_terminal(D.D1, st[1]) /\ is_terminal(D.D2, st[2])

----------------------------------------------------------------------------
(* ManyDecider<D, C, E, S>: the state is a HashMap<String, S>, a function  *)
(* whose domain is the set of keys                                         *)

\* mutant: a name never seen starts from the state of an instance already tracked
ManyDecider_decide_shared(D, idcommand, states) ==
    LET id == idcommand[1]
        command == idcommand[2]
        s == IF id \in DOMAIN states THEN states[id]
             ELSE IF DOMAIN states = {} THEN initial_state(D.D)
             ELSE states[CHOOSE k \in DOMAIN states : TRUE]
        r == decide(D.D, command, s)
    IN  IF r.ok THEN Ok([i \in DOMAIN r.val |-> <<id, r.val[i]>>]) ELSE Panic

ManyDecider_decide(D, idcommand, states) ==
    LET id == idcommand[1]
        command == idcommand[2]
        s == IF id \in DOMAIN states THEN states[id] ELSE initial_state(D.D)
        r == decide(D.D, command, s)
    IN  IF r.ok THEN Ok([i \in DOMAIN r.val |-> <<id, r.val[i]>>]) ELSE Panic

\* mutant: the event is folded into every instance tracked
ManyDecider_evolve_all(D, states, idevent) ==
    LET id == idevent[1]
        event == idevent[2]
        s == IF id \in DOMAIN states THEN states[id] ELSE initial_state(D.D)
        new_state == evolve(D.D, s, event)
    IN  IF new_state.ok /\ \A k \in DOMAIN states : evolve(D.D, states[k], event).ok
        THEN Ok([k \in DOMAIN states \cup {id} |->
                    IF k = id THEN new_state.val ELSE evolve(D.D, states[k], event).val])
        ELSE Panic

\* mutant: an instance back in D's initial state is not kept
ManyDecider_evolve_sparse(D, states, idevent) ==
    LET id == idevent[1]
        event == idevent[2]
        s == IF id \in DOMAIN states THEN states[id] ELSE initial_state(D.D)
        new_state == evolve(D.D, s, event)
    IN  IF new_state.ok
        THEN Ok([k \in (DOMAIN states \cup {id})
                        \ (IF new_state.val = initial_state(D.D) THEN {id} ELSE {}) |->
                    IF k = id THEN new_state.val ELSE states[k]])
        ELSE Panic

\* mutant: the mapping returned holds the updated key alone
ManyDecider_evolve_alone(D, states, idevent) ==
    LET id == idevent[1]
        event == idevent[2]
        s == IF id \in DOMAIN states THEN states[id] ELSE initial_state(D.D)
        new_state == evolve(D.D, s, event)
    IN  IF new_state.ok
        THEN Ok([k \in {id} |-> new_state.val])
        ELSE Panic

ManyDecider_evolve(D, states, idevent) ==
    LET id == idevent[1]
        event == idevent[2]
        s == IF id \in DOMAIN states THEN states[id] ELSE initial_state(D.D)
        new_state == evolve(D.D, s, event)
    IN  IF new_state.ok
        THEN Ok([k \in DOMAIN states \cup {id} |->
                    IF k = id THEN new_state.val ELSE states[k]])
        ELSE Panic

ManyDecider_initial_state(D) == <<>>

\* mutant: one terminal instance makes the whole mapping terminal
ManyDecider_is_terminal_any(D, states) ==
    \/ DOMAIN states = {}
    \/ \E k \in DOMAIN states : is_terminal(D.D, states[k])

\* mutant: a name never seen counts, with D's initial state
ManyDecider_is_terminal_names(D, states) ==
    \A k \in Names :
        is_terminal(D.D, IF k \in DOMAIN states THEN states[k] ELSE initial_state(D.D))

ManyDecider_is_terminal(D, states) ==
    \A k \in DOMAIN states : is_terminal(D.D, states[k])

----------------------------------------------------------------------------
(* AdaptedDecider<D, CC, ENC, EDC, SC, ..> *)

\* mutant: a command the converter has no value for is unwrapped
AdaptedDecider_decide_unwrap(D, command, st) ==
    LET c == D.CC[command]
    IN  IF c.some
        THEN LET r == decide(D.D, c.val, D.SC[st])
             IN  IF r.ok THEN Ok([i \in DOMAIN r.val |-> D.EDC[r.val[i]]]) ELSE Panic
        ELSE Panic

\* mutant: the wrapped decider decides against its initial state
AdaptedDecider_decide_fresh(D, command, st) ==
    LET c == D.CC[command]
    IN  IF c.some
        THEN LET r == decide(D.D, c.val, initial_state(D.D))
             IN  IF r.ok THEN Ok([i \in DOMAIN r.val |-> D.EDC[r.val[i]]]) ELSE Panic
        ELSE Ok(<<>>)

AdaptedDecider_decide(D, command, st) ==
    LET c == D.CC[command]
    IN  IF c.some
        THEN LET r == decide(D.D, c.val, D.SC[st])
             IN  IF r.ok THEN Ok([i \in DOMAIN r.val |-> D.EDC[r.val[i]]]) ELSE Panic
        ELSE Ok(<<>>)

\* mutant: an event the converter has no value for restarts the decider
AdaptedDecider_evolve_restart(D, st, event) ==
    LET e == D.ENC[event]
    IN  IF e.some
        THEN evolve(D.D, D.SC[st], e.val)
        ELSE Ok(initial_state(D.D))

AdaptedDecider_evolve(D, st, event) ==
    LET e == D.ENC[event]
    IN  IF e.some
        THEN evolve(D.D, D.SC[st], e.val)
        ELSE Ok(D.SC[st])

AdaptedDecider_initial_state(D) == initial_state(D.D)

AdaptedDecider_is_terminal(D, st) == is_terminal(D.D, D.SC[st])

----------------------------------------------------------------------------
(* MappedDecider<D, SC, ..> *)

MappedDecider_decide(D, command, st) == decide(D.D, command, st)

\* mutant: the state D produces is returned as it is
MappedDecider_evolve_unmapped(D, st, event) == evolve(D.D, st, event)

MappedDecider_evolve(D, st, event) ==
    LET r == evolve(D.D, st, event)
    IN  IF r.ok THEN Ok(D.SC[r.val]) ELSE Panic

MappedDecider_initial_state(D) == D.SC[initial_state(D.D)]

MappedDecider_is_terminal(D, st) == is_terminal(D.D, st)

----------------------------------------------------------------------------
(* Map2Deciders<D1, D2, SC, ..> *)

\* mutant: D2's events come first
Map2Deciders_decide_swapped(D, command, st) ==
    LET r1 == decide(D.D1, command, st)
    IN  IF ~r1.ok THEN Panic
        ELSE LET r2 == decide(D.D2, command, st)
             IN  IF ~r2.ok THEN Panic ELSE Ok(r2.val \o r1.val)

Map2Deciders_decide(D, command, st) ==
    LET r1 == decide(D.D1, command, st)
    IN  IF ~r1.ok THEN Panic
        ELSE LET r2 == decide(D.D2, command, st)
             IN  IF ~r2.ok THEN Panic ELSE Ok(r1.val \o r2.val)

\* mutant: D1 evolves from the state D2 has produced
Map2Deciders_evolve_chained(D, st, event) ==
    LET s2 == evolve(D.D2, st, event)
    IN  IF ~s2.ok THEN Panic
        ELSE LET s1 == evolve(D.D1, s2.val, event)
             IN  IF ~s1.ok THEN Panic ELSE Ok(D.SC[<<s1.val, s2.val>>])

Map2Deciders_evolve(D, st, event) ==
    LET s1 == evolve(D.D1, st, event)
    IN  IF ~s1.ok THEN Panic
        ELSE LET s2 == evolve(D.D2, st, event)
             IN  IF ~s2.ok THEN Panic ELSE Ok(D.SC[<<s1.val, s2.val>>])

Map2Deciders_initial_state(D) ==
    D.SC[<<initial_state(D.D1), initial_state(D.D2)>>]

\* mutant: D2 is not asked
Map2Deciders_is_terminal_first(D, st) == is_terminal(D.D1, st)

Map2Deciders_is_terminal(D, st) ==
    is_terminal(D.D1, st) /\ is_terminal(D.D2, st)

----------------------------------------------------------------------------
(* AppliedDecider<FD, D, ..>: FD's output state is a function *)

AppliedDecider_decide(D, command, st) ==
    LET r1 == decide(D.FD, command, st)
    IN  IF ~r1.ok THEN Panic
        ELSE LET r2 == decide(D.D, command, st)
             IN  IF ~r2.ok THEN Panic ELSE Ok(r1.val \o r2.val)

\* mutant: FD's function is applied to the input state
AppliedDecider_evolve_stale(D, st, event) ==
    LET s1 == evolve(D.FD, st, event)
    IN  IF ~s1.ok THEN Panic
        ELSE LET s2 == evolve(D.D, st, event)
             IN  IF ~s2.ok THEN Panic ELSE Ok(s1.val[st])

AppliedDecider_evolve(D, st, event) ==
    LET s1 == evolve(D.FD, st, event)
    IN  IF ~s1.ok THEN Panic
        ELSE LET s2 == evolve(D.D, st, event)
             IN  IF ~s2.ok THEN Panic ELSE Ok(s1.val[s2.val])

\* mutant: FD's initial function is not applied
AppliedDecider_initial_state_unapplied(D) == initial_state(D.D)

AppliedDecider_initial_state(D) == initial_state(D.FD)[initial_state(D.D)]

AppliedDecider_is_terminal(D, st) ==
    is_terminal(D.FD, st) /\ is_terminal(D.D, st)

----------------------------------------------------------------------------
(* cat_light: a process that wakes the cat when the light goes on *)

\* mutant: the two events are taken for each other
CatLight_evolve_swapped(st, event) ==
    IF event = "SwitchedOn" THEN "Idle" ELSE "WakingUp"

CatLight_evolve(st, event) ==
    IF event = "SwitchedOn" THEN "WakingUp" ELSE "Idle"

CatLight_resume(st) == IF st = "WakingUp" THEN <<"WakeUp">> ELSE <<>>

CatLight_react(st, event) ==
    IF st = "WakingUp" /\ event = "SwitchedOn" THEN <<"WakeUp">> ELSE <<>>

CatLight_initial_state == "Idle"

CatLight_is_terminal(st) == st = "Idle"

----------------------------------------------------------------------------
(* The Process trait and the combinators of processes.rs, which is not     *)
(* among the sources: they are modelled from the specification             *)

RECURSIVE Process_evolve(_, _, _)
RECURSIVE Process_react(_, _, _)
RECURSIVE Process_initial_state(_)

\* AdaptedProcess<P, .., EC, CC>: an event the event converter has no value
\* for leaves the process state as it is
AdaptedProcess_evolve(P, st, event) ==
    LET e == P.EC[event]
    IN  IF e.some THEN Process_evolve(P.P, st, e.val) ELSE st

\* the commands the wrapped process emits, through the command converter
AdaptedProcess_react(P, st, event) ==
    LET e == P.EC[event]
    IN  IF e.some
        THEN LET cs == Process_react(P.P, st, e.val)
             IN  [i \in DOMAIN cs |-> P.CC[cs[i]]]
        ELSE <<>>

AdaptedProcess_initial_state(P) == Process_initial_state(P.P)

Process_evolve(P, st, event) ==
    CASE P.kind = "CatLight" -> CatLight_evolve(st, event)
      [] P.kind = "AdaptedProcess" -> AdaptedProcess_evolve(P, st, event)

Process_react(P, st, event) ==
    CASE P.kind = "CatLight" -> CatLight_react(st, event)
      [] P.kind = "AdaptedProcess" -> AdaptedProcess_react(P, st, event)

Process_initial_state(P) ==
    CASE P.kind = "CatLight" -> CatLight_initial_state
      [] P.kind = "AdaptedProcess" -> AdaptedProcess_initial_state(P)

\* CombinedProcessDecider<P, D, ..>: the state is (process state, decider state)
\* mutant: the command the process emits in reaction to the first event is
\* decided too, and its events are returned after the decider's
CombinedProcessDecider_decide_dispatch(D, command, st) ==
    LET r == decide(D.D, command, st[2])
    IN  IF ~r.ok THEN Panic
        ELSE IF r.val = <<>> THEN r
        ELSE LET ds == evolve(D.D, st[2], r.val[1])
                 ps == Process_evolve(D.P, st[1], r.val[1])
                 cs == Process_react(D.P, ps, r.val[1])
             IN  IF ~ds.ok \/ cs = <<>> THEN r
                 ELSE LET r2 == decide(D.D, cs[1], ds.val)
                      IN  IF r2.ok THEN Ok(r.val \o r2.val) ELSE Panic

CombinedProcessDecider_decide(D, command, st) == decide(D.D, command, st[2])

CombinedProcessDecider_evolve(D, st, event) ==
    LET ds == evolve(D.D, st[2], event)
    IN  IF ds.ok THEN Ok(<<Process_evolve(D.P, st[1], event), ds.val>>) ELSE Panic

CombinedProcessDecider_initial_state(D) ==
    <<Process_initial_state(D.P), initial_state(D.D)>>

----------------------------------------------------------------------------
(* impl Decider for ...: which implementation a decider type selects *)

decide(D, command, st) ==
    CASE D.kind = "NeutralDecider" -> NeutralDecider_decide(command, st)
      [] D.kind = "Bulb" -> Bulb_decide(command, st)
      [] D.kind = "Cat" -> Cat_decide(command, st)
      [] D.kind = "UpdateServer" -> UpdateServer_decide(command, st)
      [] D.kind = "ComposedDeciders" -> ComposedDeciders_decide(D, command, st)
      [] D.kind = "ManyDecider" -> ManyDecider_decide(D, command, st)
      [] D.kind = "AdaptedDecider" -> AdaptedDecider_decide(D, command, st)
      [] D.kind = "MappedDecider" -> MappedDecider_decide(D, command, st)
      [] D.kind = "Map2Deciders" -> Map2Deciders_decide(D, command, st)
      [] D.kind = "AppliedDecider" -> AppliedDecider_decide(D, command, st)
      [] D.kind = "CombinedProcessDecider" -> CombinedProcessDecider_decide(D, command, st)

evolve(D, st, event) ==
    CASE D.kind = "NeutralDecider" -> NeutralDecider_evolve(st, event)
      [] D.kind = "Bulb" -> Bulb_evolve(st, event)
      [] D.kind = "Cat" -> Cat_evolve(st, event)
      [] D.kind = "UpdateServer" -> UpdateServer_evolve(st, event)
      [] D.kind = "ComposedDeciders" -> ComposedDeciders_evolve(D, st, event)
      [] D.kind = "ManyDecider" -> ManyDecider_evolve(D, st, event)
      [] D.kind = "AdaptedDecider" -> AdaptedDecider_evolve(D, st, event)
      [] D.kind = "MappedDecider" -> MappedDecider_evolve(D, st, event)
      [] D.kind = "Map2Deciders" -> Map2Deciders_evolve(D, st, event)
      [] D.kind = "AppliedDecider" -> AppliedDecider_evolve(D, st, event)
      [] D.kind = "CombinedProcessDecider" -> CombinedProcessDecider_evolve(D, st, event)

initial_state(D) ==
    CASE D.kind = "NeutralDecider" -> NeutralDecider_initial_state
      [] D.kind = "Bulb" -> Bulb_initial_state
      [] D.kind = "Cat" -> Cat_initial_state
      [] D.kind = "UpdateServer" -> UpdateServer_initial_state
      [] D.kind = "ComposedDeciders" -> ComposedDeciders_initial_state(D)
      [] D.kind = "ManyDecider" -> ManyDecider_initial_state(D)
      [] D.kind = "AdaptedDecider" -> AdaptedDecider_initial_state(D)
      [] D.kind = "MappedDecider" -> MappedDecider_initial_state(D)
      [] D.kind = "Map2Deciders" -> Map2Deciders_initial_state(D)
      [] D.kind = "AppliedDecider" -> AppliedDecider_initial_state(D)
      [] D.kind = "CombinedProcessDecider" -> CombinedProcessDecider_initial_state(D)

is_terminal(D, st) ==
    CASE D.kind = "NeutralDecider" -> NeutralDecider_is_terminal(st)
      [] D.kind = "Bulb" -> Bulb_is_terminal(st)
      [] D.kind = "Cat" -> Cat_is_terminal(st)
      [] D.kind = "UpdateServer" -> UpdateServer_is_terminal(st)
      [] D.kind = "ComposedDeciders" -> ComposedDeciders_is_terminal(D, st)
      [] D.kind = "ManyDecider" -> ManyDecider_is_terminal(D, st)
      [] D.kind = "AdaptedDecider" -> AdaptedDecider_is_terminal(D, st)
      [] D.kind = "MappedDecider" -> MappedDecider_is_terminal(D, st)
      [] D.kind = "Map2Deciders" -> Map2Deciders_is_terminal(D, st)
      [] D.kind = "AppliedDecider" -> AppliedDecider_is_terminal(D, st)

----------------------------------------------------------------------------
(* InMemoryRunner<C, E, S, D> *)

\* new(): the state field after construction
InMemoryRunner_new(D) == initial_state(D)

\* mutant: the runner starts from the decider's initial state
InMemoryRunner_with_state_initial(D, st) == initial_state(D)

\* with_state(state)
InMemoryRunner_with_state(D, st) == st

\* mutant: the loop stops after the first event
InMemoryRunner_fold_first(D, st, es) ==
    IF es = <<>> THEN [panicked |-> FALSE, state |-> st]
    ELSE LET s == evolve(D, st, Head(es))
         IN  IF s.ok THEN [panicked |-> FALSE, state |-> s.val]
             ELSE [panicked |-> TRUE, state |-> st]

\* the loop of command(): state = evolve(state, e) for each event in order.
\* The value is the state field when the loop ends or a panic unwinds.
RECURSIVE InMemoryRunner_fold(_, _, _)
InMemoryRunner_fold(D, st, es) ==
    IF es = <<>> THEN [panicked |-> FALSE, state |-> st]
    ELSE LET s == evolve(D, st, Head(es))
         IN  IF s.ok THEN InMemoryRunner_fold(D, s.val, Tail(es))
             ELSE [panicked |-> TRUE, state |-> st]

\* mutant: the events are folded from the decider's initial state, not from
\* the state the runner holds
InMemoryRunner_command_restart(D, st, command) ==
    LET es == decide(D, command, st)
    IN  IF ~es.ok THEN [panicked |-> TRUE, state |-> st, returned |-> Panic]
        ELSE LET f == InMemoryRunner_fold(D, initial_state(D), es.val)
             IN  [panicked |-> f.panicked,
                  state |-> IF es.val = <<>> THEN st ELSE f.state,
                  returned |-> IF f.panicked THEN Panic ELSE es]

\* command(&mut self, command): the state field afterwards and the value returned
InMemoryRunner_command(D, st, command) ==
    LET es == decide(D, command, st)
    IN  IF ~es.ok THEN [panicked |-> TRUE, state |-> st, returned |-> Panic]
        ELSE LET f == InMemoryRunner_fold(D, st, es.val)
             IN  [panicked |-> f.panicked, state |-> f.state,
                  returned |-> IF f.panicked THEN Panic ELSE es]

\* get_state(&self)
InMemoryRunner_get_state(st) == st

----------------------------------------------------------------------------
(* tests/integrations.rs: run_decider *)

\* events.iter().fold(init, |s, e| D::evolve(&s, e))
RECURSIVE fold_evolve(_, _, _)
fold_evolve(D, init, es) ==
    IF es = <<>> THEN Ok(init)
    ELSE LET s == fold_evolve(D, init, SubSeq(es, 1, Len(es) - 1))
         IN  IF s.ok THEN evolve(D, s.val, es[Len(es)]) ELSE Panic

run_decider(D, es, command) ==
    LET new_state == fold_evolve(D, initial_state(D), es)
    IN  IF new_state.ok THEN decide(D, command, new_state.val) ELSE Panic

----------------------------------------------------------------------------
(* Decider types: a combinator's type parameters are the fields *)

NeutralDecider == [kind |-> "NeutralDecider"]
Bulb == [kind |-> "Bulb"]
Cat == [kind |-> "Cat"]
UpdateServer == [kind |-> "UpdateServer"]
ComposedDeciders(D1, D2) == [kind |-> "ComposedDeciders", D1 |-> D1, D2 |-> D2]
ManyDecider(D) == [kind |-> "ManyDecider", D |-> D]
AdaptedDecider(D, CC, ENC, EDC, SC) ==
    [kind |-> "AdaptedDecider", D |-> D, CC |-> CC, ENC |-> ENC, EDC |-> EDC, SC |-> SC]
MappedDecider(D, SC) == [kind |-> "MappedDecider", D |-> D, SC |-> SC]
Map2Deciders(D1, D2, SC) == [kind |-> "Map2Deciders", D1 |-> D1, D2 |-> D2, SC |-> SC]
AppliedDecider(FD, D) == [kind |-> "AppliedDecider", FD |-> FD, D |-> D]
CombinedProcessDecider(P, D) == [kind |-> "CombinedProcessDecider", P |-> P, D |-> D]

\* Process types
CatLight == [kind |-> "CatLight"]
AdaptedProcess(P, EC, CC) == [kind |-> "AdaptedProcess", P |-> P, EC |-> EC, CC |-> CC]

----------------------------------------------------------------------------
(* The values of the leaf types, within the bounds *)

BulbCommands == {Fit(n) : n \in 0..MaxUses} \cup {SwitchOn, SwitchOff}
BulbEvents == {Fitted(n) : n \in 0..MaxUses} \cup {SwitchedOn, SwitchedOff, Blew}
BulbStates ==
    {NotFitted, Blown} \cup {Working(st, n) : st \in {"On", "Off"}, n \in 0..MaxUses}
\* what one evolve can return from BulbStates
BulbStatesOut == BulbStates \cup {Working("On", U64_MAX)}

CatCommands == {"WakeUp", "GetToSleep"}
CatEvents == {"WokeUp", "GotToSleep"}
CatStates == {"Awake", "Asleep"}

\* what a client can type: the versions of the server, one it does not have,
\* one with a part missing and one not trimmed
VersionStrings ==
    {VERSIONS[i] : i \in DOMAIN VERSIONS}
        \cup {<<"3", ".", "0", ".", "0">>, <<"1", ".", "0">>,
              <<" ", "1", ".", "0", ".", "0">>}
UpdateServerCommands ==
    {[tag |-> "QueryForUpdate", current_version |-> v] : v \in VersionStrings}
        \cup {[tag |-> "DownloadUpdate", desired_version |-> v] : v \in VersionStrings}
UpdateServerEvents ==
    {[tag |-> "UpdateAvailable", new_versions |-> SubSeq(VERSIONS, i, Len(VERSIONS))] : i \in DOMAIN VERSIONS}
        \cup {[tag |-> "UnknownVersionQueried", version |-> v] : v \in VersionStrings}
        \cup {[tag |-> "GotUpdateData", update_data |-> UPDATE_DATA[i]] : i \in DOMAIN UPDATE_DATA}
        \cup {[tag |-> "AlreadyUpToDate"], [tag |-> "InvalidVersion"]}

\* the types C, E and Si of a decider type
RECURSIVE Commands(_)
Commands(D) ==
    CASE D.kind = "NeutralDecider" -> {Unit}
      [] D.kind = "Bulb" -> BulbCommands
      [] D.kind = "Cat" -> CatCommands
      [] D.kind = "UpdateServer" -> UpdateServerCommands
      [] D.kind = "ComposedDeciders" ->
            {Left(c) : c \in Commands(D.D1)} \cup {Right(c) : c \in Commands(D.D2)}
      [] D.kind = "ManyDecider" -> Names \X Commands(D.D)
      [] D.kind = "AdaptedDecider" -> DOMAIN D.CC
      [] D.kind = "MappedDecider" -> Commands(D.D)
      [] D.kind = "Map2Deciders" -> Commands(D.D1)
      [] D.kind = "AppliedDecider" -> Commands(D.D)
      [] D.kind = "CombinedProcessDecider" -> Commands(D.D)

RECURSIVE Events(_)
Events(D) ==
    CASE D.kind = "NeutralDecider" -> {Unit}
      [] D.kind = "Bulb" -> BulbEvents
      [] D.kind = "Cat" -> CatEvents
      [] D.kind = "UpdateServer" -> UpdateServerEvents
      [] D.kind = "ComposedDeciders" ->
            {Left(e) : e \in Events(D.D1)} \cup {Right(e) : e \in Events(D.D2)}
      [] D.kind = "ManyDecider" -> Names \X Events(D.D)
      [] D.kind = "AdaptedDecider" -> DOMAIN D.ENC
      [] D.kind = "MappedDecider" -> Events(D.D)
      [] D.kind = "Map2Deciders" -> Events(D.D1)
      [] D.kind = "AppliedDecider" -> Events(D.D)
      [] D.kind = "CombinedProcessDecider" -> Events(D.D)

RECURSIVE States(_)
States(D) ==
    CASE D.kind = "NeutralDecider" -> {Unit}
      [] D.kind = "Bulb" -> BulbStates
      [] D.kind = "Cat" -> CatStates
      [] D.kind = "ComposedDeciders" -> States(D.D1) \X States(D.D2)
      [] D.kind = "ManyDecider" -> UNION {[K -> States(D.D)] : K \in SUBSET Names}
      [] D.kind = "AdaptedDecider" -> DOMAIN D.SC
      [] D.kind = "MappedDecider" -> States(D.D)
      [] D.kind = "Map2Deciders" -> States(D.D1)
      [] D.kind = "AppliedDecider" -> States(D.D)

----------------------------------------------------------------------------
(* Converters.  A converter type is a function: convert(input) is SC[input] *)

\* adapted_mapped_test_1
CatCommandConverter ==
    [input \in {"Sleep", "Wake"} |->
        IF input = "Sleep" THEN Some("GetToSleep") ELSE Some("WakeUp")]

CatEventInConverter ==
    [input \in {"Slept", "Woke"} |->
        IF input = "Slept" THEN Some("GotToSleep") ELSE Some("WokeUp")]

CatEventOutConverter ==
    [input \in CatEvents |-> IF input = "GotToSleep" THEN "Slept" ELSE "Woke"]

CatStateInConverter ==
    [input \in {"Slep", "Wake"} |-> IF input = "Slep" THEN "Asleep" ELSE "Awake"]

CatStateOutConverter ==
    [input \in CatStates |-> IF input = "Asleep" THEN "Slep" ELSE "Wake"]

\* compose_process
CatLightEventConverter ==
    [event \in {Left(x) : x \in CatEvents}
                \cup {Right(x) : x \in BulbEvents \cup {Fitted(TestMaxUses)}} |->
        IF event[1] = "Left" /\ event[2] = "WokeUp" THEN Some("WokeUp")
        ELSE IF event[1] = "Right" /\ event[2] = SwitchedOn THEN Some("SwitchedOn")
        ELSE None]

CatLightCommandConverter == [command \in {"WakeUp"} |-> Left("WakeUp")]

\* Converters given as type parameters by the caller, drawn from small sets
IdOn(S) == [x \in S |-> x]
ConstOn(S, v) == [x \in S |-> v]
SomeOn(S) == [x \in S |-> Some(x)]
\* a fallible converter that has no value on `dropped` and is the identity elsewhere
DropOn(S, dropped) == [x \in S |-> IF x \in dropped THEN None ELSE Some(x)]
FstOn(S) == [p \in S |-> p[1]]
SndOn(S) == [p \in S |-> p[2]]

\* every fallible command converter from AdaptedCommand to cat::Command
CatCommandConverters == [{"Sleep", "Wake"} -> {None} \cup {Some(c) : c \in CatCommands}]

\* state converters bulb::State -> bulb::State
BulbStateConverters ==
    {IdOn(BulbStates), ConstOn(BulbStates, NotFitted), ConstOn(BulbStates, Blown)}

\* state converters from bulb::State to a function fn(bulb::State) -> bulb::State
BulbFnConverters ==
    {ConstOn(BulbStatesOut, IdOn(BulbStatesOut)),
     ConstOn(BulbStatesOut, ConstOn(BulbStatesOut, Blown)),
     [s \in BulbStatesOut |-> ConstOn(BulbStatesOut, s)]}

\* state converters from the states Bulb::evolve returns to bulb::State
BulbOutConverters ==
    {IdOn(BulbStatesOut), ConstOn(BulbStatesOut, Blown),
     [s \in BulbStatesOut |->
        IF s.tag = "Working" THEN Working("Off", s.remaining_uses) ELSE s]}

\* state converters from cat::State to a function fn(cat::State) -> cat::State
CatFnConverters ==
    {ConstOn(CatStates, IdOn(CatStates)),
     [s \in CatStates |-> ConstOn(CatStates, s)],
     ConstOn(CatStates, [s \in CatStates |-> IF s = "Awake" THEN "Asleep" ELSE "Awake"])}

\* sets of bulb commands a command converter may fail on
BulbDropped == {{}, {SwitchOn}, {Fit(n) : n \in 0..MaxUses}}

\* sets of bulb events an event-in converter may fail on
BulbEventsDropped == {{SwitchedOn}, {Fitted(n) : n \in 0..MaxUses}, BulbEvents}

----------------------------------------------------------------------------
(* The decider types instantiated *)

\* compose_test_1
CatAndBulb == ComposedDeciders(Cat, Bulb)
\* many_test_1
ManyCats == ManyDecider(Cat)
ManyBulbs == ManyDecider(Bulb)

\* adapted_mapped_test_1, with the command converter a parameter
AdaptedCat(CC) ==
    AdaptedDecider(Cat, CC, CatEventInConverter, CatEventOutConverter, CatStateInConverter)
AdaptedMappedCat(CC) == MappedDecider(AdaptedCat(CC), CatStateOutConverter)

\* a Bulb behind converters that keep its types
AdaptedBulb(dropped, SC) ==
    AdaptedDecider(Bulb, DropOn(BulbCommands, dropped), SomeOn(BulbEvents),
                   IdOn(BulbEvents), SC)

\* a Bulb behind an event-in converter that has no value on `dropped`
AdaptedBulbEvents(dropped, SC) ==
    AdaptedDecider(Bulb, SomeOn(BulbCommands), DropOn(BulbEvents, dropped),
                   IdOn(BulbEvents), SC)

\* a Bulb whose produced states are converted
MappedBulbs == {MappedDecider(Bulb, SC) : SC \in BulbOutConverters}

\* a Cat that reads commands and states the other way round
ContraryCat ==
    AdaptedDecider(Cat,
        [c \in CatCommands |-> Some(IF c = "WakeUp" THEN "GetToSleep" ELSE "WakeUp")],
        SomeOn(CatEvents), IdOn(CatEvents),
        [s \in CatStates |-> IF s = "Awake" THEN "Asleep" ELSE "Awake"])
\* one command gives an event of each: decide is [GotToSleep, WokeUp] or [WokeUp, GotToSleep]
TwoCats == Map2Deciders(Cat, ContraryCat, FstOn(CatStates \X CatStates))

\* two views of one bulb: the bulb itself, and the bulb seen through SC and mapped by M
Map2Bulbs ==
    {Map2Deciders(Bulb, MappedDecider(AdaptedBulb({}, SC), M), P) :
        SC \in BulbStateConverters,
        M \in {IdOn(BulbStatesOut), ConstOn(BulbStatesOut, Blown)},
        P \in {FstOn(BulbStatesOut \X BulbStatesOut), SndOn(BulbStatesOut \X BulbStatesOut)}}

AppliedBulbs ==
    {AppliedDecider(MappedDecider(AdaptedBulb({}, SC), K), Bulb) :
        SC \in BulbStateConverters, K \in BulbFnConverters}

\* a function of the contrary cat's state applied to the cat's
AppliedCats ==
    {AppliedDecider(MappedDecider(ContraryCat, K), Cat) : K \in CatFnConverters}

\* compose_process
CatLightProcess == AdaptedProcess(CatLight, CatLightEventConverter, CatLightCommandConverter)
CatBulb == CombinedProcessDecider(CatLightProcess, CatAndBulb)

\* the deciders a runner is built over
RunnerDeciders ==
    {Cat, Bulb, CatAndBulb, ManyCats, ManyBulbs, TwoCats}
        \cup {AdaptedMappedCat(CC) : CC \in CatCommandConverters}
        \cup {AdaptedBulb(dropped, IdOn(BulbStates)) : dropped \in BulbDropped}

\* the deciders whose operations are called directly
CallDeciders ==
    {Cat, Bulb, CatAndBulb, ComposedDeciders(Bulb, Bulb), ComposedDeciders(NeutralDecider, Bulb),
     ManyCats, ManyBulbs, AdaptedMappedCat(CatCommandConverter), TwoCats}
        \cup Map2Bulbs \cup AppliedBulbs \cup MappedBulbs \cup AppliedCats
        \cup {AdaptedCat(CC) : CC \in CatCommandConverters}
        \cup {AdaptedBulb(dropped, SC) : dropped \in BulbDropped, SC \in BulbStateConverters}
        \cup {AdaptedBulbEvents(dropped, SC) :
                dropped \in BulbEventsDropped, SC \in BulbStateConverters}

----------------------------------------------------------------------------
(* A runner: new(), then command() up to MaxCalls times *)

Init ==
    /\ decider \in RunnerDeciders
    /\ state = InMemoryRunner_new(decider)
    /\ panicked = FALSE
    /\ call = [fn |-> "new"]
    /\ result = Ok(<<>>)
    /\ commands = <<>>
    /\ events = <<>>
    /\ overflow_checks \in BOOLEAN
    /\ resumed = [built |-> FALSE]

\* one command() call on the runner
Submit(c) ==
    /\ ~panicked
    /\ LET r == InMemoryRunner_command(decider, state, c)
       IN  /\ state' = r.state
           /\ panicked' = r.panicked
           /\ result' = r.returned
           /\ events' = IF r.panicked THEN events ELSE events \o r.returned.val
    /\ call' = [fn |-> "command", command |-> c, state |-> state]
    /\ commands' = Append(commands, c)
    /\ UNCHANGED <<decider, overflow_checks>>

Command(c) == Len(commands) < MaxCalls /\ Submit(c) /\ UNCHANGED resumed

Next == \E c \in Commands(decider) : Command(c)

Spec == Init /\ [][Next]_vars

----------------------------------------------------------------------------
(* A runner resumed: after some commands a second runner is built by       *)
(* with_state(get_state()), and both are given the same commands           *)

GetState ==
    /\ ~panicked
    /\ call' = [fn |-> "get_state", state |-> state]
    /\ result' = Ok(InMemoryRunner_get_state(state))
    /\ UNCHANGED <<decider, state, panicked, commands, events, overflow_checks, resumed>>

WithState ==
    /\ ~panicked
    /\ ~resumed.built
    /\ LET s == InMemoryRunner_get_state(state)
       IN  resumed' = [built |-> TRUE, seed |-> s,
                       state |-> InMemoryRunner_with_state(decider, s),
                       panicked |-> FALSE, returned |-> Ok(<<>>)]
    /\ call' = [fn |-> "with_state"]
    /\ UNCHANGED <<decider, state, panicked, result, commands, events, overflow_checks>>

\* command(c) on the first runner, then command(c) on the resumed one
CommandBoth(c) ==
    /\ resumed.built
    /\ ~resumed.panicked
    /\ Len(commands) < MaxCalls
    /\ Submit(c)
    /\ LET r == InMemoryRunner_command(decider, resumed.state, c)
       IN  resumed' = [resumed EXCEPT !.state = r.state, !.panicked = r.panicked,
                                      !.returned = r.returned]

NextResume ==
    \/ \E c \in Commands(decider) : ~resumed.built /\ Command(c)
    \/ GetState
    \/ WithState
    \/ \E c \in Commands(decider) : CommandBoth(c)

SpecResume == Init /\ [][NextResume]_vars

----------------------------------------------------------------------------
(* compose_process: a runner of the cat-light process combined with        *)
(* ComposedDeciders(Cat, Bulb)                                             *)

InitProcess ==
    /\ decider = CatBulb
    /\ state = InMemoryRunner_new(decider)
    /\ panicked = FALSE
    /\ call = [fn |-> "new"]
    /\ result = Ok(<<>>)
    /\ commands = <<>>
    /\ events = <<>>
    /\ overflow_checks \in BOOLEAN
    /\ resumed = [built |-> FALSE]

ProcessCommand(c) == Len(commands) < MaxProcessCalls /\ Submit(c) /\ UNCHANGED resumed

NextProcess ==
    \E c \in Commands(decider) \cup {Right(Fit(TestMaxUses))} : ProcessCommand(c)

SpecProcess == InitProcess /\ [][NextProcess]_vars

----------------------------------------------------------------------------
(* A runner over Bulb whose caller keeps issuing SwitchOn and SwitchOff *)

InitBlow ==
    /\ decider = Bulb
    /\ state = InMemoryRunner_new(decider)
    /\ panicked = FALSE
    /\ call = [fn |-> "new"]
    /\ result = Ok(<<>>)
    /\ commands = <<>>
    /\ events = <<>>
    /\ overflow_checks \in BOOLEAN
    /\ resumed = [built |-> FALSE]

\* one command() call on the runner; the commands issued are not recorded,
\* their number is unbounded
Issue(c) ==
    /\ ~panicked
    /\ LET r == InMemoryRunner_command(decider, state, c)
       IN  /\ state' = r.state
           /\ panicked' = r.panicked
           /\ result' = r.returned
           /\ events' = IF r.panicked THEN events ELSE events \o r.returned.val
    /\ call' = [fn |-> "command", command |-> c, state |-> state]
    /\ UNCHANGED <<decider, overflow_checks, commands, resumed>>

NextBlow == \E c \in BulbCommands \cup {Fit(TestMaxUses)} : Issue(c)

\* SwitchOn and SwitchOff are each issued again and again
SpecBlow ==
    /\ InitBlow /\ [][NextBlow]_vars
    /\ WF_vars(Issue(SwitchOn)) /\ WF_vars(Issue(SwitchOff))

----------------------------------------------------------------------------
(* examples/update_server.rs: a runner over UpdateServer, given any commands *)

InitUpdate ==
    /\ decider = UpdateServer
    /\ state = InMemoryRunner_new(decider)
    /\ panicked = FALSE
    /\ call = [fn |-> "new"]
    /\ result = Ok(<<>>)
    /\ commands = <<>>
    /\ events = <<>>
    /\ overflow_checks \in BOOLEAN
    /\ resumed = [built |-> FALSE]

NextUpdate == \E c \in Commands(decider) : Issue(c)

SpecUpdate == InitUpdate /\ [][NextUpdate]_vars

----------------------------------------------------------------------------
(* Direct calls of a decider's operations on any state of its type *)

InitCalls ==
    /\ decider \in CallDeciders
    /\ state \in States(decider)
    /\ panicked = FALSE
    /\ call = [fn |-> "none"]
    /\ result = Ok(<<>>)
    /\ commands = <<>>
    /\ events = <<>>
    /\ overflow_checks \in BOOLEAN
    /\ resumed = [built |-> FALSE]

CallDecide(c) ==
    /\ call' = [fn |-> "decide", command |-> c]
    /\ result' = decide(decider, c, state)
    /\ panicked' = ~result'.ok
    /\ UNCHANGED <<decider, state, commands, events, overflow_checks, resumed>>

CallEvolve(e) ==
    /\ call' = [fn |-> "evolve", event |-> e]
    /\ result' = evolve(decider, state, e)
    /\ panicked' = ~result'.ok
    /\ UNCHANGED <<decider, state, commands, events, overflow_checks, resumed>>

CallInitialState ==
    /\ call' = [fn |-> "initial_state"]
    /\ result' = Ok(initial_state(decider))
    /\ panicked' = FALSE
    /\ UNCHANGED <<decider, state, commands, events, overflow_checks, resumed>>

CallIsTerminal ==
    /\ call' = [fn |-> "is_terminal"]
    /\ result' = Ok(is_terminal(decider, state))
    /\ panicked' = FALSE
    /\ UNCHANGED <<decider, state, commands, events, overflow_checks, resumed>>

NextCalls ==
    \/ \E c \in Commands(decider) : CallDecide(c)
    \/ \E e \in Events(decider) : CallEvolve(e)
    \/ CallInitialState
    \/ CallIsTerminal

SpecCalls == InitCalls /\ [][NextCalls]_vars

----------------------------------------------------------------------------
(* run_decider called on any event history and command *)

\* the slices &[E] of at most n elements
Slices(E, n) == UNION {[1..k -> E] : k \in 0..n}

\* the deciders run_decider is instantiated with
ReplayDeciders ==
    {Cat, Bulb} \cup {AdaptedMappedCat(CC) : CC \in CatCommandConverters}

InitReplay ==
    /\ decider \in ReplayDeciders
    /\ state = initial_state(decider)
    /\ panicked = FALSE
    /\ call = [fn |-> "none"]
    /\ result = Ok(<<>>)
    /\ commands = <<>>
    /\ events = <<>>
    /\ overflow_checks \in BOOLEAN
    /\ resumed = [built |-> FALSE]

\* run_decider(es, c); state is the local new_state when the fold returns
RunDecider(es, c) ==
    /\ call' = [fn |-> "run_decider", events |-> es, command |-> c]
    /\ result' = run_decider(decider, es, c)
    /\ panicked' = ~result'.ok
    /\ state' = LET new_state == fold_evolve(decider, initial_state(decider), es)
                IN  IF new_state.ok THEN new_state.val ELSE state
    /\ UNCHANGED <<decider, commands, events, overflow_checks, resumed>>

\* run_decider starts from initial_state() at every call: one call is made
NextReplay ==
    /\ call.fn = "none"
    /\ \E es \in Slices(Events(decider), MaxEvents) :
          \E c \in Commands(decider) : RunDecider(es, c)

SpecReplay == InitReplay /\ [][NextReplay]_vars

----------------------------------------------------------------------------
(* Properties of the runner *)

\* C1: a command() call that returns gives back exactly decide(command, state
\* before the call), and leaves as state the left fold of evolve over those
\* events from the state before the call; no events, no change of state.
C1_CommandFoldsDecide ==
    (call.fn = "command" /\ ~panicked) =>
        LET d == decide(decider, call.command, call.state)
        IN  /\ d.ok
            /\ result = d
            /\ fold_evolve(decider, call.state, d.val) = Ok(state)
            /\ (d.val = <<>> => state = call.state)

\* a command gave two different events, both folded in
C1_Witness ==
    /\ call.fn = "command" /\ ~panicked
    /\ Len(result.val) = 2
    /\ result.val[1] # result.val[2]

\* C2: the state of a runner made with new() is the fold of evolve, from
\* initial_state(), over all the events its command() calls returned, in order.
C2_StateIsReplayOfEvents ==
    ~panicked => fold_evolve(decider, initial_state(decider), events) = Ok(state)

\* three events of two named cats have been folded
C2_Witness ==
    /\ decider = ManyCats /\ ~panicked
    /\ Len(events) >= 3
    /\ DOMAIN state = Names
    /\ state["Floof"] # state["Shadow"]

\* C3: in ComposedDeciders a left command gives left events only and leaves
\* state.1 alone, a right command gives right events only and leaves state.0
\* alone; evolve with a left event keeps state.1, with a right event state.0.
C3_ComposedFrame ==
    decider.kind = "ComposedDeciders" =>
        /\ call.fn = "command" =>
              IF call.command[1] = "Left"
              THEN state[2] = call.state[2]
              ELSE state[1] = call.state[1]
        /\ \A c \in Commands(decider) :
              LET d == decide(decider, c, state)
              IN  d.ok => \A i \in DOMAIN d.val : d.val[i][1] = c[1]
        /\ \A e \in Events(decider) :
              LET r == evolve(decider, state, e)
              IN  r.ok => IF e[1] = "Left"
                          THEN r.val[2] = state[2]
                          ELSE r.val[1] = state[1]

\* a left command gave an event while the right side was past its initial state
C3_Witness ==
    /\ decider = CatAndBulb
    /\ call.fn = "command" /\ call.command[1] = "Left"
    /\ result.ok /\ result.val # <<>>
    /\ state[1] # call.state[1]
    /\ state[2] # NotFitted

\* a runner of D alone, after new() and the commands cmds (it stops at a panic)
RECURSIVE RunnerAfter(_, _)
RunnerAfter(D, cmds) ==
    IF cmds = <<>>
    THEN [panicked |-> FALSE, state |-> InMemoryRunner_new(D), returned |-> Ok(<<>>)]
    ELSE LET before == RunnerAfter(D, SubSeq(cmds, 1, Len(cmds) - 1))
         IN  IF before.panicked THEN before
             ELSE InMemoryRunner_command(D, before.state, cmds[Len(cmds)])

\* the commands of one side, untagged, in the order submitted
SideCommands(side) ==
    LET OnSide(c) == c[1] = side
        sel == SelectSeq(commands, OnSide)
    IN  [i \in DOMAIN sel |-> sel[i][2]]

\* C4: a runner of ComposedDeciders(A, B) is two independent runners: state.0
\* is the state of a runner of A given the left commands, state.1 that of a
\* runner of B given the right commands, and what a call returns is the tagged
\* copy of what that single runner returns.
C4_ComposedIsTwoRunners ==
    decider.kind = "ComposedDeciders" =>
        LET L == RunnerAfter(decider.D1, SideCommands("Left"))
            R == RunnerAfter(decider.D2, SideCommands("Right"))
        IN  /\ state = <<L.state, R.state>>
            /\ panicked = (L.panicked \/ R.panicked)
            /\ call.fn = "command" =>
                  LET one == IF call.command[1] = "Left" THEN L.returned ELSE R.returned
                  IN  result = IF one.ok
                               THEN Ok([i \in DOMAIN one.val |->
                                           <<call.command[1], one.val[i]>>])
                               ELSE Panic

\* both sides have moved, through interleaved commands
C4_Witness ==
    /\ decider = CatAndBulb /\ ~panicked
    /\ Len(events) >= 3
    /\ state[1] = "Asleep"
    /\ state[2] = Working("On", 0)
    /\ call.fn = "command" /\ call.command[1] = "Left"

----------------------------------------------------------------------------
(* Properties of the combinators' operations, called on any state *)

\* C5: ManyDecider.decide((name, c), states) is D.decide(c, states[name])
\* with every event paired with name; for a name that is no key it is
\* D.decide(c, D.initial_state()), what D alone gives after no events,
\* whatever the other names' states are.
C5_ManyDecide ==
    (decider.kind = "ManyDecider" /\ call.fn = "decide") =>
        LET id == call.command[1]
            c == call.command[2]
            d == IF id \in DOMAIN state
                 THEN decide(decider.D, c, state[id])
                 ELSE run_decider(decider.D, <<>>, c)
        IN  /\ result = IF d.ok THEN Ok([i \in DOMAIN d.val |-> <<id, d.val[i]>>])
                        ELSE Panic
            /\ \A other \in States(decider) :
                  \/ (id \in DOMAIN other) # (id \in DOMAIN state)
                  \/ (id \in DOMAIN other /\ other[id] # state[id])
                  \/ decide(decider, call.command, other) = result

\* Shadow, never seen, goes to sleep although Floof is already asleep
C5_Witness ==
    /\ decider = ManyCats /\ call.fn = "decide"
    /\ call.command = <<"Shadow", "GetToSleep">>
    /\ DOMAIN state = {"Floof"} /\ state["Floof"] = "Asleep"
    /\ result = Ok(<< <<"Shadow", "GotToSleep">> >>)

\* C6: ManyDecider.evolve(states, (name, e)) has the keys of states and name,
\* the values of states on the other keys, and D.evolve(s, e) under name,
\* s being states[name] or D.initial_state() for a name that is no key.
C6_ManyEvolve ==
    (decider.kind = "ManyDecider" /\ call.fn = "evolve") =>
        LET id == call.event[1]
            e == call.event[2]
            s == IF id \in DOMAIN state THEN state[id] ELSE initial_state(decider.D)
            n == evolve(decider.D, s, e)
        IN  IF n.ok
            THEN /\ result.ok
                 /\ DOMAIN result.val = DOMAIN state \cup {id}
                 /\ \A k \in DOMAIN state \ {id} : result.val[k] = state[k]
                 /\ result.val[id] = n.val
            ELSE result = Panic

\* a bulb never seen is fitted next to one that is tracked
C6_Witness ==
    /\ decider = ManyBulbs /\ call.fn = "evolve"
    /\ call.event = <<"Shadow", Fitted(1)>>
    /\ DOMAIN state = {"Floof"} /\ state["Floof"] = Working("On", 1)
    /\ result.ok /\ result.val["Shadow"] = Working("Off", 1)

\* C7: ManyDecider.is_terminal(states) holds iff D.is_terminal holds of every
\* value in the mapping; the empty mapping, the initial state, is terminal
\* although D's initial state is not; names that are no keys do not count.
C7_ManyIsTerminal ==
    decider.kind = "ManyDecider" =>
        /\ call.fn = "is_terminal" =>
              /\ result.val = (\A k \in Names :
                                  k \in DOMAIN state => is_terminal(decider.D, state[k]))
              /\ state = <<>> => result.val
        /\ is_terminal(decider, initial_state(decider))
        /\ ~is_terminal(decider.D, initial_state(decider.D))

\* one blown bulb is tracked, the other name was never seen: terminal
C7_Witness ==
    /\ decider = ManyBulbs /\ call.fn = "is_terminal"
    /\ DOMAIN state = {"Floof"} /\ state["Floof"] = Blown
    /\ result.val = TRUE

\* C8: is_terminal of a pairwise combinator is the conjunction of is_terminal
\* of its two constituents: of state.0 and state.1 in ComposedDeciders, of the
\* same state in Map2Deciders and AppliedDecider.
C8_TerminalIsConjunction ==
    call.fn = "is_terminal" =>
        CASE decider.kind = "ComposedDeciders" ->
                result.val = (is_terminal(decider.D1, state[1])
                                /\ is_terminal(decider.D2, state[2]))
          [] decider.kind = "Map2Deciders" ->
                result.val = (is_terminal(decider.D1, state)
                                /\ is_terminal(decider.D2, state))
          [] decider.kind = "AppliedDecider" ->
                result.val = (is_terminal(decider.FD, state)
                                /\ is_terminal(decider.D, state))
          [] OTHER -> TRUE

\* D1 is terminal and D2 is not: the Map2Deciders is not
C8_Witness ==
    /\ decider.kind = "Map2Deciders" /\ call.fn = "is_terminal"
    /\ is_terminal(decider.D1, state) /\ ~is_terminal(decider.D2, state)
    /\ result.val = FALSE

\* C9: the initial state of a combinator is made of its constituents' initial
\* states: their pair in ComposedDeciders, the empty mapping in ManyDecider,
\* SC of their pair in Map2Deciders, FD's applied to D's in AppliedDecider.
C9_InitialStateIsComposition ==
    call.fn = "initial_state" =>
        CASE decider.kind = "ComposedDeciders" ->
                result.val = <<initial_state(decider.D1), initial_state(decider.D2)>>
          [] decider.kind = "ManyDecider" ->
                DOMAIN result.val = {}
          [] decider.kind = "Map2Deciders" ->
                result.val = decider.SC[<<initial_state(decider.D1),
                                          initial_state(decider.D2)>>]
          [] decider.kind = "AppliedDecider" ->
                result.val = initial_state(decider.FD)[initial_state(decider.D)]
          [] OTHER -> TRUE

\* FD's initial function turns D's initial state NotFitted into Blown
C9_Witness ==
    /\ decider.kind = "AppliedDecider" /\ call.fn = "initial_state"
    /\ initial_state(decider.D) = NotFitted
    /\ result.val = Blown

----------------------------------------------------------------------------
(* Properties of an adapter under a runner *)

\* the AdaptedDecider of the runner's decider type, if it has one
Adapter == IF decider.kind = "MappedDecider" THEN decider.D ELSE decider

\* C10: when the command converter has no value for x, AdaptedDecider.decide(x, s)
\* returns no events for every outward state s, without a panic, and the
\* runner such a command is submitted to keeps its state.
C10_UnmappedCommandIsNoOp ==
    Adapter.kind = "AdaptedDecider" =>
        /\ \A x \in DOMAIN Adapter.CC : \A s \in DOMAIN Adapter.SC :
              ~Adapter.CC[x].some => decide(Adapter, x, s) = Ok(<<>>)
        /\ (call.fn = "command" /\ ~Adapter.CC[call.command].some) =>
              /\ ~panicked
              /\ result = Ok(<<>>)
              /\ state = call.state

\* SwitchOn is not converted: the fitted bulb, which would switch on, stays off
C10_Witness ==
    /\ decider = AdaptedBulb({SwitchOn}, IdOn(BulbStates))
    /\ call.fn = "command" /\ call.command = SwitchOn
    /\ state = Working("Off", 1)
    /\ decide(Bulb, SwitchOn, state) = Ok(<<SwitchedOn>>)
    /\ result = Ok(<<>>)

----------------------------------------------------------------------------
(* Properties of the adapters' operations, called on any state *)

\* C11: AdaptedDecider.evolve(s, e) is the state converter's image of s when
\* the event-in converter has no value for e, also where D.evolve would panic;
\* when the converter gives e' it is D.evolve(SC(s), e').
C11_AdaptedEvolve ==
    (decider.kind = "AdaptedDecider" /\ call.fn = "evolve") =>
        LET e == decider.ENC[call.event]
        IN  IF e.some
            THEN result = evolve(decider.D, decider.SC[state], e.val)
            ELSE result = Ok(decider.SC[state])

\* SwitchedOn is not converted: the state converter's image of a used-up bulb
\* comes back, where Bulb::evolve on that image would overflow
C11_Witness ==
    /\ decider.kind = "AdaptedDecider" /\ call.fn = "evolve"
    /\ call.event = SwitchedOn /\ ~decider.ENC[SwitchedOn].some
    /\ state = Working("Off", 0) /\ decider.SC[state] = state
    /\ overflow_checks /\ evolve(Bulb, state, SwitchedOn) = Panic
    /\ result = Ok(Working("Off", 0))

\* the converters of MappedDecider(AdaptedDecider(D, ..), ..) are total
\* bijections, event-out inverse to event-in, the outer state converter
\* inverse to the adapter's
IsRoundTrip(M) ==
    /\ M.kind = "MappedDecider" /\ M.D.kind = "AdaptedDecider"
    /\ LET A == M.D
       IN  /\ \A x \in DOMAIN A.CC : A.CC[x].some
           /\ \A x, y \in DOMAIN A.CC : A.CC[x] = A.CC[y] => x = y
           /\ {A.CC[x].val : x \in DOMAIN A.CC} = Commands(A.D)
           /\ \A x \in DOMAIN A.ENC : A.ENC[x].some /\ A.EDC[A.ENC[x].val] = x
           /\ \A x \in DOMAIN A.EDC : A.ENC[A.EDC[x]] = Some(x)
           /\ DOMAIN A.EDC = Events(A.D)
           /\ \A s \in DOMAIN A.SC : M.SC[A.SC[s]] = s
           /\ \A s \in DOMAIN M.SC : A.SC[M.SC[s]] = s
           /\ DOMAIN M.SC = States(A.D)

\* C12: a decider adapted through total bijections and mapped back through the
\* inverse state converter behaves as the decider D it wraps: for every
\* outward event history and command, run_decider returns the event-out
\* images, in order, of what D returns for the converted history and command,
\* and the outward state is the converted image of D's state.
C12_AdaptRoundTrip ==
    (call.fn = "run_decider" /\ IsRoundTrip(decider)) =>
        LET A == decider.D
            es == [i \in DOMAIN call.events |-> A.ENC[call.events[i]].val]
            c == A.CC[call.command].val
            s == fold_evolve(A.D, initial_state(A.D), es)
            d == run_decider(A.D, es, c)
        IN  /\ result = IF d.ok THEN Ok([i \in DOMAIN d.val |-> A.EDC[d.val[i]]])
                        ELSE Panic
            /\ s.ok => state = decider.SC[s.val]

\* adapted_mapped_test_1 continued: asleep after Slept, Woke, Slept, the cat wakes
C12_Witness ==
    /\ decider = AdaptedMappedCat(CatCommandConverter)
    /\ call.fn = "run_decider"
    /\ call.events = <<"Slept", "Woke", "Slept">> /\ call.command = "Wake"
    /\ state = "Slep"
    /\ result = Ok(<<"Woke">>)

\* C13: MappedDecider changes produced states only: decide and is_terminal
\* are D's on every input, evolve(s, e) is SC(D.evolve(s, e)) and
\* initial_state() is SC(D.initial_state()).
C13_MappedChangesProducedStates ==
    decider.kind = "MappedDecider" =>
        /\ call.fn = "decide" => result = decide(decider.D, call.command, state)
        /\ call.fn = "is_terminal" => result.val = is_terminal(decider.D, state)
        /\ call.fn = "evolve" =>
              LET r == evolve(decider.D, state, call.event)
              IN  result = IF r.ok THEN Ok(decider.SC[r.val]) ELSE Panic
        /\ call.fn = "initial_state" =>
              result.val = decider.SC[initial_state(decider.D)]

\* the state returned is not the one D produced
C13_Witness ==
    /\ decider.kind = "MappedDecider" /\ call.fn = "evolve"
    /\ evolve(decider.D, state, call.event).ok
    /\ evolve(decider.D, state, call.event).val # state
    /\ result.ok /\ result.val # evolve(decider.D, state, call.event).val

----------------------------------------------------------------------------
(* Properties of the two-decider combinators, called on any state *)

\* C14: Map2Deciders.decide(c, s) is D1.decide(c, s) followed by
\* D2.decide(c, s): D1's events in their order, then D2's in theirs, both for
\* the same command and state, none dropped, repeated or interleaved.
C14_Map2Decide ==
    (decider.kind = "Map2Deciders" /\ call.fn = "decide") =>
        LET r1 == decide(decider.D1, call.command, state)
            r2 == decide(decider.D2, call.command, state)
        IN  IF r1.ok /\ r2.ok
            THEN /\ result.ok
                 /\ Len(result.val) = Len(r1.val) + Len(r2.val)
                 /\ \A i \in DOMAIN r1.val : result.val[i] = r1.val[i]
                 /\ \A i \in DOMAIN r2.val : result.val[Len(r1.val) + i] = r2.val[i]
            ELSE result = Panic

\* the cat goes to sleep, then the contrary cat wakes up
C14_Witness ==
    /\ decider = TwoCats /\ call.fn = "decide"
    /\ call.command = "GetToSleep" /\ state = "Awake"
    /\ decide(decider.D1, "GetToSleep", state) = Ok(<<"GotToSleep">>)
    /\ decide(decider.D2, "GetToSleep", state) = Ok(<<"WokeUp">>)
    /\ result = Ok(<<"GotToSleep", "WokeUp">>)

\* C15: Map2Deciders.evolve(s, e) is SC((D1.evolve(s, e), D2.evolve(s, e))):
\* both evolve from the input state s, neither from the other's output.
C15_Map2Evolve ==
    (decider.kind = "Map2Deciders" /\ call.fn = "evolve") =>
        LET s1 == evolve(decider.D1, state, call.event)
            s2 == evolve(decider.D2, state, call.event)
        IN  result = IF s1.ok /\ s2.ok THEN Ok(decider.SC[<<s1.val, s2.val>>])
                     ELSE Panic

\* D2 has moved the state, and D1's part, which is what is returned, would be
\* another had D1 started from D2's output
C15_Witness ==
    /\ decider.kind = "Map2Deciders" /\ call.fn = "evolve" /\ result.ok
    /\ evolve(decider.D2, state, call.event).val # state
    /\ result.val = evolve(decider.D1, state, call.event).val
    /\ result.val # evolve(decider.D1, evolve(decider.D2, state, call.event).val,
                           call.event).val

\* C16: AppliedDecider.evolve(s, e) is f(d) for f = FD.evolve(s, e) and
\* d = D.evolve(s, e), both from the same state and event;
\* AppliedDecider.decide(c, s) is FD.decide(c, s) followed by D.decide(c, s).
C16_AppliedEvolveDecide ==
    decider.kind = "AppliedDecider" =>
        /\ call.fn = "evolve" =>
              LET f == evolve(decider.FD, state, call.event)
                  d == evolve(decider.D, state, call.event)
              IN  result = IF f.ok /\ d.ok THEN Ok(f.val[d.val]) ELSE Panic
        /\ call.fn = "decide" =>
              LET r1 == decide(decider.FD, call.command, state)
                  r2 == decide(decider.D, call.command, state)
              IN  result = IF r1.ok /\ r2.ok THEN Ok(r1.val \o r2.val) ELSE Panic

\* the function FD produced is applied to the state D produced, which is not
\* the input state
C16_Witness ==
    /\ decider \in AppliedBulbs /\ call.fn = "evolve" /\ result.ok
    /\ state = Working("Off", 2) /\ call.event = SwitchedOn
    /\ evolve(decider.FD, state, call.event).val = IdOn(BulbStatesOut)
    /\ result.val = Working("On", 1)

----------------------------------------------------------------------------
(* Properties of a resumed runner *)

----------------------------------------------------------------------------
(* Properties of the leaf deciders, called on any state *)

\* C18: Bulb::decide panics exactly when the command is Fit and the state is
\* not NotFitted; on every other command and state of Bulb, and on every
\* command and state of Cat, decide returns no event or one.
C18_DecideTotalButRefit ==
    (call.fn = "decide" /\ decider.kind \in {"Bulb", "Cat"}) =>
        LET refit == /\ decider.kind = "Bulb"
                     /\ call.command.tag = "Fit"
                     /\ state.tag \in {"Working", "Blown"}
        IN  /\ refit <=> result = Panic
            /\ ~refit => (result.ok /\ Len(result.val) \in {0, 1})

\* a blown bulb is fitted again
C18_Witness ==
    /\ decider = Bulb /\ call.fn = "decide"
    /\ call.command.tag = "Fit" /\ state = Blown
    /\ result = Panic /\ panicked

\* C19: Bulb::evolve returns a state, without a panic and without arithmetic
\* wrap-around, for every state and event, Working with remaining_uses = 0
\* and SwitchedOn included.
C19_BulbEvolveNeverFails ==
    (call.fn = "evolve" /\ decider.kind = "Bulb") =>
        /\ result.ok
        /\ (state.tag = "Working" /\ result.val.tag = "Working") =>
              result.val.remaining_uses <= state.remaining_uses

\* C19, what the code does: Bulb::evolve fails at Working with
\* remaining_uses = 0 and SwitchedOn, by a panic with overflow checks and by
\* wrapping to u64::MAX without, and nowhere else.
C19_BulbEvolveFailsAtZeroOnly ==
    (call.fn = "evolve" /\ decider.kind = "Bulb") =>
        IF state.tag = "Working" /\ state.remaining_uses = 0 /\ call.event = SwitchedOn
        THEN result = IF overflow_checks THEN Panic ELSE Ok(Working("On", U64_MAX))
        ELSE /\ result.ok
             /\ (state.tag = "Working" /\ result.val.tag = "Working") =>
                   result.val.remaining_uses <= state.remaining_uses

\* a used-up bulb is switched on: remaining_uses wraps to u64::MAX
C19_Witness ==
    /\ decider = Bulb /\ call.fn = "evolve"
    /\ state = Working("Off", 0) /\ call.event = SwitchedOn
    /\ ~overflow_checks
    /\ result = Ok(Working("On", U64_MAX))

----------------------------------------------------------------------------
(* Properties of a process combined with a decider *)

\* the process state after the events es, an event the process's converter
\* has no value for changing nothing
RECURSIVE CatLightAfter(_)
CatLightAfter(es) ==
    IF es = <<>> THEN CatLight_initial_state
    ELSE LET before == CatLightAfter(SubSeq(es, 1, Len(es) - 1))
             e == CatLightEventConverter[es[Len(es)]]
         IN  IF e.some THEN CatLight_evolve(before, e.val) ELSE before

\* C20: CombinedProcessDecider.evolve folds each event into both components
\* of the state: the decider component is what the decider's evolve gives,
\* the process component what the process's evolve gives, unchanged for an
\* event the adapted process cannot map.  So the runner of the cat-light
\* process combined with ComposedDeciders(Cat, Bulb), given Fit{5},
\* GetToSleep, WakeUp, SwitchOn, SwitchOff, ends in
\* (WakingUp, (Awake, Working{Off, remaining_uses 4})).
C20_CombinedEvolveFoldsBoth ==
    (decider.kind = "CombinedProcessDecider" /\ ~panicked) =>
        /\ Ok(state[2]) = fold_evolve(decider.D, initial_state(decider.D), events)
        /\ state[1] = CatLightAfter(events)
        /\ commands = <<Right(Fit(TestMaxUses)), Left("GetToSleep"), Left("WakeUp"),
                        Right(SwitchOn), Right(SwitchOff)>> =>
              state = <<"WakingUp", <<"Awake", Working("Off", TestMaxUses - 1)>>>>

\* the end of compose_process
C20_Witness ==
    /\ decider = CatBulb /\ ~panicked
    /\ commands = <<Right(Fit(TestMaxUses)), Left("GetToSleep"), Left("WakeUp"),
                    Right(SwitchOn), Right(SwitchOff)>>
    /\ events = <<Right(Fitted(TestMaxUses)), Left("GotToSleep"), Left("WokeUp"),
                  Right(SwitchedOn), Right(SwitchedOff)>>
    /\ state = <<"WakingUp", <<"Awake", Working("Off", 4)>>>>

\* C21: CombinedProcessDecider.decide(c, (ps, ds)) is the decider's
\* decide(c, ds): a command the process emits through react is not decided,
\* so it adds no event and no change of state in the same command() call.
C21_CombinedDecideIsDeciders ==
    (decider.kind = "CombinedProcessDecider" /\ call.fn = "command" /\ ~panicked) =>
        LET d == decide(decider.D, call.command, call.state[2])
        IN  /\ result = d
            /\ Ok(state[2]) = fold_evolve(decider.D, call.state[2], d.val)

\* the light goes on while the cat sleeps: the process emits WakeUp, and the
\* cat is still asleep when the call returns
C21_Witness ==
    /\ decider = CatBulb /\ call.fn = "command" /\ ~panicked
    /\ call.command = Right(SwitchOn)
    /\ call.state[2][1] = "Asleep"
    /\ result = Ok(<<Right(SwitchedOn)>>)
    /\ Process_react(decider.P, state[1], Right(SwitchedOn)) = <<Left("WakeUp")>>
    /\ state[1] = "WakingUp" /\ state[2][1] = "Asleep"

----------------------------------------------------------------------------
(* Properties of a runner of Bulb *)

\* how many of the events es are the bulb event named tag
CountEvents(es, tag) == Cardinality({i \in DOMAIN es : es[i].tag = tag})

\* C22: from NotFitted, Fit{n} yields [Fitted{n}] and the state Working{Off, n};
\* in every state a runner reaches afterwards remaining_uses is n minus the
\* number of SwitchedOn events emitted so far, and not below 0: SwitchedOn is
\* emitted only when remaining_uses > 0 and SwitchedOff leaves the counter.
C22_BulbUseCounter ==
    decider.kind = "Bulb" =>
        /\ (call.fn = "command" /\ call.command.tag = "Fit" /\ call.state.tag = "NotFitted") =>
              /\ result = Ok(<<Fitted(call.command.max_uses)>>)
              /\ state = Working("Off", call.command.max_uses)
        /\ state.tag = "Working" =>
              /\ events[1].tag = "Fitted"
              /\ state.remaining_uses
                    = events[1].max_uses - CountEvents(events, "SwitchedOn")
              /\ state.remaining_uses >= 0
              /\ state.remaining_uses <= events[1].max_uses
        /\ (call.fn = "command" /\ result = Ok(<<SwitchedOn>>)) =>
              call.state.remaining_uses > 0
        /\ (call.fn = "command" /\ result = Ok(<<SwitchedOff>>)) =>
              state.remaining_uses = call.state.remaining_uses

\* a bulb fitted for two uses has been switched on twice
C22_Witness ==
    /\ decider = Bulb /\ ~panicked
    /\ events = <<Fitted(2), SwitchedOn, SwitchedOff, SwitchedOn>>
    /\ state = Working("On", 0)

\* the events the runner had returned before the last call
EventsBefore == SubSeq(events, 1, Len(events) - Len(result.val))

\* what decide, evolve and is_terminal of Bulb do at exhaustion
BulbBlows ==
    /\ decide(Bulb, SwitchOn, Working("Off", 0)) = Ok(<<Blew>>)
    /\ \A s \in BulbStates : s.tag = "Working" => evolve(Bulb, s, Blew) = Ok(Blown)
    /\ \A s \in BulbStates : is_terminal(Bulb, s) <=> s = Blown

\* C23 as claimed: in Working{Off, 0} SwitchOn yields [Blew]; Blew folded into
\* any Working state gives Blown; is_terminal holds of Blown alone.  Over a
\* runner Blew is emitted only in response to the SwitchOn that follows the
\* n-th SwitchedOn and a SwitchedOff of a bulb fitted with max_uses n.
C23_BlewFollowsSwitchedOff ==
    decider.kind = "Bulb" =>
        /\ BulbBlows
        /\ (call.fn = "command" /\ result = Ok(<<Blew>>)) =>
              /\ call.command = SwitchOn
              /\ CountEvents(EventsBefore, "SwitchedOn") = events[1].max_uses
              /\ EventsBefore[Len(EventsBefore)] = SwitchedOff

\* C23 amended: as claimed, but over a runner Blew is emitted only in response
\* to a SwitchOn given in Working{Off, 0}, when n SwitchedOn events have been
\* emitted: after the n-th SwitchedOn and a SwitchedOff for n >= 1, and right
\* after Fitted{0}, with no SwitchedOff, for n = 0.
C23_BlewAtExhaustion ==
    decider.kind = "Bulb" =>
        /\ BulbBlows
        /\ (call.fn = "command" /\ result = Ok(<<Blew>>)) =>
              /\ call.command = SwitchOn
              /\ call.state = Working("Off", 0)
              /\ state = Blown
              /\ CountEvents(EventsBefore, "SwitchedOn") = events[1].max_uses
              /\ EventsBefore[Len(EventsBefore)]
                    = IF events[1].max_uses = 0 THEN Fitted(0) ELSE SwitchedOff

\* a bulb fitted for one use blows at the second SwitchOn
C23_Witness ==
    /\ decider = Bulb /\ call.fn = "command" /\ call.command = SwitchOn
    /\ events = <<Fitted(1), SwitchedOn, SwitchedOff, Blew>>
    /\ state = Blown /\ is_terminal(decider, state)

\* the SwitchedOn and SwitchedOff events among es, in order
Switchings(es) ==
    LET IsSwitching(x) == x.tag \in {"SwitchedOn", "SwitchedOff"}
    IN  SelectSeq(es, IsSwitching)

\* C24: SwitchOn while the status is On and SwitchOff while it is Off return
\* no events, so in the events of a runner SwitchedOn and SwitchedOff
\* strictly alternate, beginning with SwitchedOn.
C24_NoDoubleSwitching ==
    decider.kind = "Bulb" =>
        /\ (call.fn = "command" /\ call.state.tag = "Working") =>
              /\ (call.state.status = "On" /\ call.command = SwitchOn) => result = Ok(<<>>)
              /\ (call.state.status = "Off" /\ call.command = SwitchOff) => result = Ok(<<>>)
        /\ LET sw == Switchings(events)
           IN  \A i \in DOMAIN sw :
                  sw[i] = IF i % 2 = 1 THEN SwitchedOn ELSE SwitchedOff

\* bulb_test_3: a lit bulb is switched on again
C24_Witness ==
    /\ decider = Bulb /\ call.fn = "command" /\ ~panicked
    /\ commands = <<Fit(2), SwitchOn, SwitchOn>>
    /\ call.state = Working("On", 1)
    /\ result = Ok(<<>>)
    /\ events = <<Fitted(2), SwitchedOn>>

----------------------------------------------------------------------------
(* Properties of a runner of ManyDecider *)

\* the commands addressed to name, without the name, in the order submitted
NameCommands(name) ==
    LET ForName(c) == c[1] = name
        sel == SelectSeq(commands, ForName)
    IN  [i \in DOMAIN sel |-> sel[i][2]]

\* C25: a runner of ManyDecider is a fleet of independent runners of D: after
\* any sequence of (name, command) calls the value under each name, or
\* D.initial_state() for a name that is no key, is the state of a runner of D
\* given the commands addressed to that name alone, and what each call
\* returns is what that runner returns, every event paired with the name.
C25_ManyIsFleet ==
    decider.kind = "ManyDecider" =>
        LET Single(name) == RunnerAfter(decider.D, NameCommands(name))
        IN  /\ \A name \in Names :
                  Single(name).state = IF name \in DOMAIN state THEN state[name]
                                       ELSE initial_state(decider.D)
            /\ panicked = (\E name \in Names : Single(name).panicked)
            /\ call.fn = "command" =>
                  LET one == Single(call.command[1]).returned
                  IN  result = IF one.ok
                               THEN Ok([i \in DOMAIN one.val |->
                                           <<call.command[1], one.val[i]>>])
                               ELSE Panic

\* two bulbs fitted and used through interleaved commands
C25_Witness ==
    /\ decider = ManyBulbs /\ ~panicked
    /\ commands = << <<"Floof", Fit(1)>>, <<"Shadow", Fit(2)>>, <<"Floof", SwitchOn>> >>
    /\ result = Ok(<< <<"Floof", SwitchedOn>> >>)
    /\ state["Floof"] = Working("On", 0)
    /\ state["Shadow"] = Working("Off", 2)

----------------------------------------------------------------------------
(* Properties of a terminal Bulb, called directly *)

\* C26 as claimed: for Bulb in the terminal state Blown, decide returns
\* without a panic and with no events for every command (Fit, SwitchOn,
\* SwitchOff), and evolve leaves Blown as it is for every event.
C26_BlownAcceptsEveryCommand ==
    (decider.kind = "Bulb" /\ state = Blown) =>
        /\ is_terminal(decider, state)
        /\ call.fn = "decide" => result = Ok(<<>>)
        /\ call.fn = "evolve" => result = Ok(Blown)

\* C26 amended: for Bulb in the terminal state Blown, decide returns no
\* events for SwitchOn and SwitchOff and panics for Fit; evolve leaves Blown
\* as it is for every event, so a terminal Bulb stays terminal.
C26_BlownAcceptsAllButFit ==
    (decider.kind = "Bulb" /\ state = Blown) =>
        /\ is_terminal(decider, state)
        /\ call.fn = "decide" =>
              result = IF call.command.tag = "Fit" THEN Panic ELSE Ok(<<>>)
        /\ call.fn = "evolve" =>
              (result = Ok(Blown) /\ is_terminal(decider, result.val))

\* a Fitted event is folded into a blown bulb
C26_Witness ==
    /\ decider = Bulb /\ state = Blown
    /\ call.fn = "evolve" /\ call.event.tag = "Fitted"
    /\ result = Ok(Blown)

----------------------------------------------------------------------------
(* Properties of a runner over Cat *)

\* C27: the events of a runner over Cat alternate GotToSleep, WokeUp,
\* GotToSleep, ... beginning with GotToSleep; the state is Asleep exactly
\* when the number of events is odd; WakeUp while Awake and GetToSleep while
\* Asleep return no events; is_terminal is never true.
C27_CatAlternates ==
    decider.kind = "Cat" =>
        /\ \A i \in DOMAIN events :
              events[i] = IF i % 2 = 1 THEN "GotToSleep" ELSE "WokeUp"
        /\ (state = "Asleep") <=> (Len(events) % 2 = 1)
        /\ state \in {"Awake", "Asleep"}
        /\ call.fn = "command" =>
              /\ (call.command = "WakeUp" /\ call.state = "Awake") => result = Ok(<<>>)
              /\ (call.command = "GetToSleep" /\ call.state = "Asleep") => result = Ok(<<>>)
        /\ ~is_terminal(decider, state)
        /\ ~panicked

\* the cat fell asleep, woke up, fell asleep and is told to sleep again
C27_Witness ==
    /\ decider = Cat
    /\ events = <<"GotToSleep", "WokeUp", "GotToSleep">>
    /\ call.fn = "command" /\ call.command = "GetToSleep" /\ call.state = "Asleep"
    /\ result = Ok(<<>>)
    /\ state = "Asleep"

----------------------------------------------------------------------------
(* Termination of a Bulb whose caller keeps switching it *)

\* C28: a bulb fitted with max_uses n, to which SwitchOn and SwitchOff keep
\* being issued, eventually reaches Blown (a runner that panicked on a second
\* Fit takes no more commands); it is Blown after exactly n SwitchedOn events,
\* and no execution emits more than n of them.
C28_BulbEventuallyBlows ==
    /\ [](events # <<>> =>
            /\ events[1].tag = "Fitted"
            /\ CountEvents(events, "SwitchedOn") <= events[1].max_uses
            /\ state = Blown => CountEvents(events, "SwitchedOn") = events[1].max_uses)
    /\ (state.tag = "Working") ~> (state = Blown \/ panicked)

\* a bulb fitted for TestMaxUses uses has blown
C28_Witness ==
    /\ decider = Bulb /\ state = Blown /\ ~panicked
    /\ events[1] = Fitted(TestMaxUses)
    /\ CountEvents(events, "SwitchedOn") = TestMaxUses
    /\ events[Len(events)] = Blew

----------------------------------------------------------------------------
(* The names a runner over ManyDecider tracks *)

\* C29: under a runner over ManyDecider the key set of the state is exactly
\* the set of names for which an event has been emitted; a command never
\* removes a key and adds at most one, its own name; a command that returns
\* no events (decide alone ran) leaves the mapping as it was, so an unseen
\* name stays absent.
C29_TrackedNames ==
    decider.kind = "ManyDecider" =>
        /\ DOMAIN state = {events[i][1] : i \in DOMAIN events}
        /\ call.fn = "command" =>
              /\ DOMAIN call.state \subseteq DOMAIN state
              /\ DOMAIN state \subseteq DOMAIN call.state \cup {call.command[1]}
              /\ result \in {Ok(<<>>), Panic} => state = call.state

\* WakeUp for a cat never seen returns no events and the name stays absent,
\* while another cat is tracked
C29_Witness ==
    /\ decider = ManyCats
    /\ call.fn = "command" /\ call.command = <<"Shadow", "WakeUp">>
    /\ result = Ok(<<>>)
    /\ DOMAIN state = {"Floof"}
    /\ state["Floof"] = "Awake"

----------------------------------------------------------------------------
(* Terminality of a runner over ManyDecider *)

\* C30: is_terminal of ManyDecider is not stable: a command leads from a
\* terminal mapping (empty, or all tracked instances terminal) to a
\* non-terminal one exactly when it is for a name not yet tracked, emits an
\* event and leaves that instance in a non-terminal state; over Cat,
\* is_terminal holds initially and never again once an event was emitted.
C30_TerminalityNotStable ==
    decider.kind = "ManyDecider" =>
        /\ is_terminal(decider, InMemoryRunner_new(decider))
        /\ (call.fn = "command" /\ is_terminal(decider, call.state)) =>
              LET name == call.command[1]
              IN  ~is_terminal(decider, state) <=>
                      /\ name \notin DOMAIN call.state
                      /\ result.ok /\ result.val # <<>>
                      /\ ~is_terminal(decider.D, state[name])
        /\ decider.D.kind = "Cat" => (is_terminal(decider, state) <=> events = <<>>)

\* Floof has blown, the mapping is terminal; then Shadow is fitted
C30_Witness ==
    /\ decider = ManyBulbs
    /\ call.fn = "command" /\ call.command[1] = "Shadow" /\ call.command[2].tag = "Fit"
    /\ call.state = [k \in {"Floof"} |-> Blown]
    /\ is_terminal(decider, call.state)
    /\ state["Shadow"].tag = "Working"
    /\ ~is_terminal(decider, state)

----------------------------------------------------------------------------
(* Properties of a runner over UpdateServer *)

\* C31: a runner over UpdateServer, started in NewConnection, emits at most
\* two events in all: the first is the one event of a QueryForUpdate, the
\* second the one event of a DownloadUpdate; in every terminal state
\* (NoNewUpdate, DownloadReady, DownloadUnavailable) decide returns no events
\* for every command and evolve returns the state for every event; in
\* UnknownVersion, which is not terminal, decide returns no events for every
\* command either.
C31_UpdateServerQuiescence ==
    decider.kind = "UpdateServer" =>
        /\ ~panicked
        /\ Len(events) <= 2
        /\ (call.fn = "command" /\ result.val # <<>>) =>
              /\ Len(result.val) = 1
              /\ Len(EventsBefore) = IF call.command.tag = "QueryForUpdate" THEN 0 ELSE 1
        /\ is_terminal(decider, state)
              <=> state.tag \in {"NoNewUpdate", "DownloadReady", "DownloadUnavailable"}
        /\ is_terminal(decider, state) =>
              /\ \A c \in Commands(decider) : decide(decider, c, state) = Ok(<<>>)
              /\ \A e \in Events(decider) : evolve(decider, state, e) = Ok(state)
        /\ state.tag = "UnknownVersion" =>
              \A c \in Commands(decider) : decide(decider, c, state) = Ok(<<>>)

\* a version the server does not have was queried, and the query is repeated
\* with a version it has
C31_Witness ==
    /\ decider = UpdateServer
    /\ state.tag = "UnknownVersion" /\ ~is_terminal(decider, state)
    /\ call.fn = "command" /\ call.state = state
    /\ call.command = [tag |-> "QueryForUpdate", current_version |-> VERSIONS[1]]
    /\ result = Ok(<<>>)
    /\ Len(events) = 1

====
